---- MODULE Spec2Model ----
(***************************************************************************)
(* The generic CRUD / audit engine of server.js: the handlers               *)
(*   POST   /api/tables/:tableName/create                                   *)
(*   PUT    /api/tables/:tableName/update                                   *)
(*   DELETE /api/tables/:tableName/delete                                   *)
(* with validateTableAccess, getTableSchema, logAuditAction and             *)
(* handlePostgresError, run as concurrent requests against one store.       *)
(* Every await on pool.query is one atomic step of the store; the handler   *)
(* code between two awaits runs with the step that precedes it.             *)
(*                                                                          *)
(* JavaScript values are written as their JSON rendering: "0" is the        *)
(* number zero, "" the empty string, "null" and "undefined" the two absent  *)
(* values.  A row snapshot that may be null (oldValues, newValues, rows[0]) *)
(* is a set holding the row, or the empty set for null / undefined.         *)
(***************************************************************************)
EXTENDS Integers, Sequences, FiniteSets, TLC

\* Number of requests in flight in one behaviour.
MaxReq == 2

Reqs == 1 .. MaxReq

VARIABLES
    db,           \* the backing store: table name -> set of rows
    auditSeq,     \* the serial sequence behind audit_log.id
    pc,           \* each request's position in its handler
    req,          \* each request's parameters and body
    oldRecord,    \* oldRecord / recordToDelete: the pre-image read for audit
    result,       \* newRecord / updatedRecord / deletedRecord: rows[0] of RETURNING *
    columns,      \* Object.keys(cleanData) / Object.keys(cleanUpdateData)
    touched,      \* the rows the request's UPDATE / DELETE statement hit, as they were
    written,      \* the audit rows inserted by the request's logAuditAction
    auditResult,  \* what logAuditAction came to: "none", "written", "failed"
    res,          \* the response sent
    thrown,       \* the error raised while the request was handled, NoError when none
    stmt,         \* the request whose statement was built last
    sql,          \* the text of that statement, as handed to pool.query
    params,       \* the values bound to it
    catalog,      \* the catalog content of the table a query handler is asked for
    heap,         \* the rows of that table
    reply,        \* what the query handler answered
    fks,          \* the foreign-key constraints of that table in the catalog
    calls,        \* each getTableSchema call: its position, what it has read, and whether
                  \* the catalog has stayed as it was since the call began
    computed,     \* the TableSchema the process returned first, if any
    users,        \* the users table
    sessions,     \* each request's way through requireAuth, requireAdmin and its handler
    resetTokens,  \* the password_reset_tokens table
    acct          \* each account request (login, reset, confirm, toggle-status): its
                  \* position, its input, what it has read and its response

engineVars == <<db, auditSeq, pc, req, oldRecord, result, columns, touched, written,
                auditResult, res, thrown>>

stmtVars == <<stmt, sql, params>>

queryVars == <<catalog, heap, reply>>

schemaVars == <<fks, calls, computed>>

authVars == <<users, sessions, resetTokens, acct>>

vars == <<engineVars, stmtVars, queryVars, schemaVars, authVars>>

----------------------------------------------------------------------------
(* JavaScript values *)

JsNull == "null"
JsUndefined == "undefined"
JsEmpty == ""

\* !v
Falsy(v) == v \in {JsUndefined, JsNull, JsEmpty, "0", "false"}

EmptyData == [k \in {} |-> JsEmpty]

----------------------------------------------------------------------------
(* The catalog and the store *)

\* information_schema.tables WHERE table_schema = 'public'
PublicTables == {"datos", "audit_log"}

\* information_schema.columns of each table
ColumnsOf(t) ==
    IF t = "audit_log"
    THEN {"id", "action", "table_name", "record_id", "old_values", "new_values"}
    ELSE {"id", "a"}

\* the columns holding JSON snapshots
SnapshotColumns == {"old_values", "new_values"}

\* pg_index ... indisprimary
PrimaryKeyOf(t) == "id"

\* The value a column takes when an INSERT does not name it.
DefaultOf(t, c, seq) ==
    IF t = "audit_log" /\ c = "id" THEN ToString(seq + 1)
    ELSE IF c \in SnapshotColumns THEN {}
    ELSE JsNull

\* "field" = $1 : SQL equality, never true of NULL
Matches(x, f, v) ==
    /\ v \notin {JsNull, JsUndefined}
    /\ f \notin SnapshotColumns
    /\ x[f] = v

NoError == "ok"

\* INSERT INTO "t" (keys of data) VALUES (...) RETURNING *
StoreInsert(rows, t, data, seq) ==
    LET pk == PrimaryKeyOf(t)
        row == [c \in ColumnsOf(t) |->
                   IF c \in DOMAIN data THEN data[c] ELSE DefaultOf(t, c, seq)]
    IN  IF ~(DOMAIN data \subseteq ColumnsOf(t))
        THEN [err |-> "42703", rows |-> rows, out |-> {}, hit |-> {}]
        ELSE IF row[pk] \in {JsNull, JsUndefined}
        THEN [err |-> "23502", rows |-> rows, out |-> {}, hit |-> {}]
        ELSE IF \E x \in rows : x[pk] = row[pk]
        THEN [err |-> "23505", rows |-> rows, out |-> {}, hit |-> {}]
        ELSE [err |-> NoError, rows |-> rows \cup {row}, out |-> {row}, hit |-> {}]

\* SELECT * FROM "t" WHERE "f" = $1
StoreSelect(rows, t, f, v) ==
    IF f \notin ColumnsOf(t)
    THEN [err |-> "42703", rows |-> rows, out |-> {}, hit |-> {}]
    ELSE LET hit == {x \in rows : Matches(x, f, v)}
         IN  [err |-> NoError, rows |-> rows, out |-> hit, hit |-> hit]

\* UPDATE "t" SET (keys of set) RETURNING *, without the WHERE
StoreUpdateAll(rows, t, set, f, v) ==
    LET upd(x) == [c \in ColumnsOf(t) |-> IF c \in DOMAIN set THEN set[c] ELSE x[c]]
    IN  IF DOMAIN set = {} \/ ~(DOMAIN set \subseteq ColumnsOf(t)) \/ f \notin ColumnsOf(t)
        THEN [err |-> "42703", rows |-> rows, out |-> {}, hit |-> {}]
        ELSE [err |-> NoError, rows |-> {upd(x) : x \in rows},
              out |-> {upd(x) : x \in rows}, hit |-> rows]

\* UPDATE "t" SET (keys of set) WHERE "f" = $n RETURNING *
StoreUpdate(rows, t, set, f, v) ==
    LET pk == PrimaryKeyOf(t)
        upd(x) == [c \in ColumnsOf(t) |-> IF c \in DOMAIN set THEN set[c] ELSE x[c]]
    IN  IF DOMAIN set = {}
        THEN [err |-> "42601", rows |-> rows, out |-> {}, hit |-> {}]
        ELSE IF ~(DOMAIN set \subseteq ColumnsOf(t)) \/ f \notin ColumnsOf(t)
        THEN [err |-> "42703", rows |-> rows, out |-> {}, hit |-> {}]
        ELSE LET hit == {x \in rows : Matches(x, f, v)}
                 keys == {y[pk] : y \in rows \ hit}
             IN  IF \E x \in hit : upd(x)[pk] \in {JsNull, JsUndefined}
                 THEN [err |-> "23502", rows |-> rows, out |-> {}, hit |-> {}]
                 ELSE IF \/ \E x \in hit : upd(x)[pk] \in keys
                         \/ \E x, y \in hit : x # y /\ upd(x)[pk] = upd(y)[pk]
                 THEN [err |-> "23505", rows |-> rows, out |-> {}, hit |-> {}]
                 ELSE [err |-> NoError,
                       rows |-> (rows \ hit) \cup {upd(x) : x \in hit},
                       out |-> {upd(x) : x \in hit},
                       hit |-> hit]

\* DELETE FROM "t" WHERE "f" = $1 RETURNING *
StoreDelete(rows, t, f, v) ==
    IF f \notin ColumnsOf(t)
    THEN [err |-> "42703", rows |-> rows, out |-> {}, hit |-> {}]
    ELSE LET hit == {x \in rows : Matches(x, f, v)}
         IN  [err |-> NoError, rows |-> rows \ hit, out |-> hit, hit |-> hit]

\* rows[0] of a result whose order the statement leaves open: any of the rows,
\* undefined (the empty snapshot) when there is none.
FirstRows(out) == IF out = {} THEN {{}} ELSE {{x} : x \in out}

----------------------------------------------------------------------------
(* Requests *)

NoCriteria == [field |-> JsUndefined, value |-> JsUndefined]

Request(op, t, crit, data) ==
    [op |-> op, tableName |-> t, searchCriteria |-> crit, data |-> data]

NoRequest == Request("none", "", NoCriteria, EmptyData)

Crit(f, v) == [field |-> f, value |-> v]

\* The bodies sent to POST /api/tables/:tableName/create
CreateRequests ==
    { Request("create", "datos", NoCriteria, ("id" :> "1" @@ "a" :> "1")),
      Request("create", "datos", NoCriteria, ("id" :> "2" @@ "a" :> JsEmpty)),
      Request("create", "datos", NoCriteria, ("id" :> "0" @@ "a" :> JsNull)),
      Request("create", "datos", NoCriteria, ("id" :> JsNull @@ "a" :> JsUndefined)),
      Request("create", "audit_log", NoCriteria, ("action" :> "UPDATE")),
      Request("create", "ausente", NoCriteria, ("id" :> "1")) }

\* The bodies sent to PUT /api/tables/:tableName/update
UpdateRequests ==
    { Request("update", "datos", Crit("id", "1"), ("a" :> "2")),
      Request("update", "datos", Crit("id", "1"),
              ("a" :> "1" @@ "_rowIndex" :> "1" @@ "_primaryKey" :> "1")),
      Request("update", "datos", Crit("a", "1"), ("id" :> "2")),
      Request("update", "datos", Crit("id", "2"), EmptyData),
      Request("update", "datos", Crit("id", JsUndefined), ("a" :> "2")),
      Request("update", "datos", Crit("id", "0"), ("a" :> "2")),
      Request("update", "datos", Crit("action", "CREATE"), ("a" :> "2")),
      Request("update", "audit_log", Crit("action", "CREATE"), ("action" :> "DELETE")),
      Request("update", "ausente", Crit("id", "1"), ("a" :> "2")) }

\* The bodies sent to DELETE /api/tables/:tableName/delete
DeleteRequests ==
    { Request("delete", "datos", Crit("id", "1"), EmptyData),
      Request("delete", "datos", Crit("id", "0"), EmptyData),
      Request("delete", "datos", Crit("a", "1"), EmptyData),
      Request("delete", "datos", NoCriteria, EmptyData),
      Request("delete", "audit_log", Crit("action", "CREATE"), EmptyData),
      Request("delete", "ausente", Crit("id", "1"), EmptyData) }

\* The content of the data table when the server starts.
InitTables ==
    { {},
      { ("id" :> "1" @@ "a" :> "1") },
      { ("id" :> "1" @@ "a" :> "1"), ("id" :> "2" @@ "a" :> "1") } }

----------------------------------------------------------------------------
(* Helpers of the handlers *)

\* validateTableAccess: throws when the table is not in the catalog
validateTableAccess(tableName) == tableName \in PublicTables

\* getTableSchema(tableName).primaryKey
getTableSchema(tableName) ==
    [columns |-> ColumnsOf(tableName), primaryKey |-> PrimaryKeyOf(tableName)]

\* handlePostgresError(error).status
handlePostgresError(code) ==
    IF code = "23505" THEN 409
    ELSE IF code = "23503" THEN 400
    ELSE IF code = "ECONNREFUSED" THEN 503
    ELSE 500

\* if (data[key]): drops every falsy field, the number zero included
CleanDataTruthy(data) ==
    LET keep == {k \in DOMAIN data : ~Falsy(data[k])}
    IN  [k \in keep |-> data[k]]

\* cleanData: the fields of the body that are not undefined, null or ''
CleanData(data) ==
    LET keep == {k \in DOMAIN data : data[k] \notin {JsUndefined, JsNull, JsEmpty}}
    IN  [k \in keep |-> data[k]]

\* Update: !searchCriteria || !searchCriteria.field || searchCriteria.value === undefined
InvalidUpdateCriteria(searchCriteria) ==
    Falsy(searchCriteria.field) \/ searchCriteria.value = JsUndefined

\* Delete: !searchCriteria || !searchCriteria.field || !searchCriteria.value
InvalidDeleteCriteria(searchCriteria) ==
    Falsy(searchCriteria.field) \/ Falsy(searchCriteria.value)

\* cleanUpdateData: the update payload without _rowIndex and _primaryKey
CleanUpdateData(data) ==
    [k \in DOMAIN data \ {"_rowIndex", "_primaryKey"} |-> data[k]]

\* recordId?.toString() || null
RecordIdOf(snapshot, pk) ==
    IF snapshot = {} THEN JsNull
    ELSE LET v == (CHOOSE x \in snapshot : TRUE)[pk]
         IN  IF v \in {JsNull, JsUndefined, JsEmpty} THEN JsNull ELSE v

NoStmt ==
    [kind |-> "none", tableName |-> <<>>, cols |-> <<>>, field |-> <<>>,
     dataType |-> <<>>, branch |-> "", values |-> <<>>]

NoResponse == [status |-> 0, success |-> FALSE, data |-> {}]

\* no table asked for, nothing answered
NoCatalog == [tableName |-> "", listed |-> FALSE, columns |-> <<>>, primary |-> {}]

NoReply ==
    [kind |-> "none", status |-> 0, success |-> FALSE, data |-> <<>>, total |-> 0,
     primaryKey |-> {}, field |-> "", text |-> <<>>, issued |-> FALSE]

ErrorResponse(status) == [status |-> status, success |-> FALSE, data |-> {}]

\* res.status(...).json({success: false, ...}) on a request that has written nothing
Reject(r, q, status) ==
    /\ pc' = [pc EXCEPT ![r] = "done"]
    /\ req' = [req EXCEPT ![r] = q]
    /\ res' = [res EXCEPT ![r] = ErrorResponse(status)]
    /\ UNCHANGED thrown

\* the catch block of a handler: handlePostgresError, then the error response
Catch(r, code) ==
    /\ pc' = [pc EXCEPT ![r] = "done"]
    /\ res' = [res EXCEPT ![r] = ErrorResponse(handlePostgresError(code))]
    /\ thrown' = [thrown EXCEPT ![r] = code]

TypeError == "TypeError"
TableNotFound == "Error"

----------------------------------------------------------------------------
(* The state after construction *)

\* no getTableSchema call has begun
NoCall ==
    [pc |-> "idle", columns |-> <<>>, foreignKeys |-> <<>>, primaryKey |-> {},
     err |-> NoError, stable |-> TRUE]

SchemaIdle ==
    /\ fks = {}
    /\ calls = [g \in Reqs |-> NoCall]
    /\ computed = {}

\* no request received
NoJwt == [present |-> FALSE, signed |-> FALSE, expired |-> FALSE, rol |-> ""]

NoSession ==
    [route |-> "", jwt |-> NoJwt, stage |-> "idle", status |-> 0, user |-> "", data |-> {}]

\* no account request received
NoAccount ==
    [op |-> "none", pc |-> "idle", email |-> "", password |-> "", token |-> "",
     record |-> {}, status |-> 0, message |-> "", jwt |-> FALSE]

AuthIdle ==
    /\ users = {}
    /\ sessions = [r \in Reqs |-> NoSession]
    /\ resetTokens = {}
    /\ acct = [r \in Reqs |-> NoAccount]

Init ==
    /\ \E rows \in InitTables : db = [t \in PublicTables |-> IF t = "datos" THEN rows ELSE {}]
    /\ auditSeq = 0
    /\ pc = [r \in Reqs |-> "new"]
    /\ req = [r \in Reqs |-> NoRequest]
    /\ oldRecord = [r \in Reqs |-> {}]
    /\ result = [r \in Reqs |-> {}]
    /\ columns = [r \in Reqs |-> {}]
    /\ touched = [r \in Reqs |-> {}]
    /\ written = [r \in Reqs |-> <<>>]
    /\ auditResult = [r \in Reqs |-> "none"]
    /\ res = [r \in Reqs |-> NoResponse]
    /\ thrown = [r \in Reqs |-> NoError]
    /\ stmt = NoStmt
    /\ sql = <<>>
    /\ params = <<>>
    /\ catalog = NoCatalog
    /\ heap = {}
    /\ reply = NoReply
    /\ SchemaIdle
    /\ AuthIdle

----------------------------------------------------------------------------
(* POST /api/tables/:tableName/create, up to the INSERT *)

CreateInsert(r) ==
    /\ pc[r] = "new"
    /\ UNCHANGED <<stmtVars, queryVars, schemaVars, authVars>>
    /\ \E q \in CreateRequests :
         LET cleanData == CleanData(q.data) IN
         IF ~validateTableAccess(q.tableName)
         THEN /\ req' = [req EXCEPT ![r] = q]
              /\ Catch(r, TableNotFound)
              /\ UNCHANGED <<db, auditSeq, oldRecord, result, columns, touched,
                             written, auditResult>>
         ELSE IF DOMAIN cleanData = {}
         THEN /\ Reject(r, q, 400)
              /\ UNCHANGED <<db, auditSeq, oldRecord, result, columns, touched,
                             written, auditResult>>
         ELSE LET ins == StoreInsert(db[q.tableName], q.tableName, cleanData, auditSeq) IN
              /\ req' = [req EXCEPT ![r] = q]
              /\ columns' = [columns EXCEPT ![r] = DOMAIN cleanData]
              /\ IF ins.err # NoError
                 THEN /\ Catch(r, ins.err)
                      /\ UNCHANGED <<db, auditSeq, result>>
                 ELSE /\ db' = [db EXCEPT ![q.tableName] = ins.rows]
                      /\ auditSeq' = IF q.tableName = "audit_log" /\ "id" \notin DOMAIN cleanData
                                     THEN auditSeq + 1 ELSE auditSeq
                      /\ \E first \in FirstRows(ins.out) :
                            result' = [result EXCEPT ![r] = first]
                      /\ pc' = [pc EXCEPT ![r] = "audit"]
                      /\ UNCHANGED <<res, thrown>>
              /\ UNCHANGED <<oldRecord, touched, written, auditResult>>

----------------------------------------------------------------------------
(* PUT /api/tables/:tableName/update *)

\* up to the SELECT that reads the pre-image
UpdateSelect(r) ==
    /\ pc[r] = "new"
    /\ UNCHANGED <<stmtVars, queryVars, schemaVars, authVars>>
    /\ \E q \in UpdateRequests :
         LET searchCriteria == q.searchCriteria IN
         /\ UNCHANGED <<db, auditSeq, result, columns, touched, written, auditResult>>
         /\ IF ~validateTableAccess(q.tableName)
            THEN /\ req' = [req EXCEPT ![r] = q]
                 /\ Catch(r, TableNotFound)
                 /\ UNCHANGED oldRecord
            ELSE IF InvalidUpdateCriteria(searchCriteria)
            THEN /\ Reject(r, q, 400)
                 /\ UNCHANGED oldRecord
            ELSE LET sel == StoreSelect(db[q.tableName], q.tableName,
                                        searchCriteria.field, searchCriteria.value) IN
                 /\ req' = [req EXCEPT ![r] = q]
                 /\ IF sel.err # NoError
                    THEN /\ Catch(r, sel.err)
                         /\ UNCHANGED oldRecord
                    ELSE IF sel.out = {}
                    THEN /\ pc' = [pc EXCEPT ![r] = "done"]
                         /\ res' = [res EXCEPT ![r] = ErrorResponse(404)]
                         /\ UNCHANGED thrown
                         /\ UNCHANGED oldRecord
                    ELSE /\ \E first \in FirstRows(sel.out) :
                               oldRecord' = [oldRecord EXCEPT ![r] = first]
                         /\ pc' = [pc EXCEPT ![r] = "apply"]
                         /\ UNCHANGED <<res, thrown>>

\* updatedRecord?.[primaryKey]: an undefined row does not stop the audit call
UpdatedRecordIdOptional(updatedRecord, primaryKey) == NoError

\* updatedRecord[primaryKey], evaluated for the audit call: throws on undefined
UpdatedRecordId(updatedRecord, primaryKey) ==
    IF updatedRecord = {} THEN TypeError ELSE NoError

\* the UPDATE ... RETURNING * and the code up to the audit call
UpdateApply(r) ==
    /\ pc[r] = "apply"
    /\ UNCHANGED <<stmtVars, queryVars, schemaVars, authVars>>
    /\ req[r].op = "update"
    /\ LET q == req[r]
           cleanUpdateData == CleanUpdateData(q.data)
           upd == StoreUpdate(db[q.tableName], q.tableName, cleanUpdateData,
                              q.searchCriteria.field, q.searchCriteria.value)
       IN  /\ columns' = [columns EXCEPT ![r] = DOMAIN cleanUpdateData]
           /\ UNCHANGED <<auditSeq, req, oldRecord, written, auditResult>>
           /\ IF upd.err # NoError
              THEN /\ Catch(r, upd.err)
                   /\ UNCHANGED <<db, result, touched>>
              ELSE /\ db' = [db EXCEPT ![q.tableName] = upd.rows]
                   /\ touched' = [touched EXCEPT ![r] = upd.hit]
                   /\ \E first \in FirstRows(upd.out) :
                        /\ result' = [result EXCEPT ![r] = first]
                        /\ IF UpdatedRecordId(first, PrimaryKeyOf(q.tableName)) # NoError
                           THEN Catch(r, TypeError)
                           ELSE /\ pc' = [pc EXCEPT ![r] = "audit"]
                                /\ UNCHANGED <<res, thrown>>

----------------------------------------------------------------------------
(* DELETE /api/tables/:tableName/delete *)

\* up to the SELECT that reads the record to delete
DeleteSelect(r) ==
    /\ pc[r] = "new"
    /\ UNCHANGED <<stmtVars, queryVars, schemaVars, authVars>>
    /\ \E q \in DeleteRequests :
         LET searchCriteria == q.searchCriteria IN
         /\ UNCHANGED <<db, auditSeq, result, columns, touched, written, auditResult>>
         /\ IF ~validateTableAccess(q.tableName)
            THEN /\ req' = [req EXCEPT ![r] = q]
                 /\ Catch(r, TableNotFound)
                 /\ UNCHANGED oldRecord
            ELSE IF InvalidDeleteCriteria(searchCriteria)
            THEN /\ Reject(r, q, 400)
                 /\ UNCHANGED oldRecord
            ELSE LET sel == StoreSelect(db[q.tableName], q.tableName,
                                        searchCriteria.field, searchCriteria.value) IN
                 /\ req' = [req EXCEPT ![r] = q]
                 /\ IF sel.err # NoError
                    THEN /\ Catch(r, sel.err)
                         /\ UNCHANGED oldRecord
                    ELSE IF sel.out = {}
                    THEN /\ pc' = [pc EXCEPT ![r] = "done"]
                         /\ res' = [res EXCEPT ![r] = ErrorResponse(404)]
                         /\ UNCHANGED thrown
                         /\ UNCHANGED oldRecord
                    ELSE /\ \E first \in FirstRows(sel.out) :
                               oldRecord' = [oldRecord EXCEPT ![r] = first]
                         /\ pc' = [pc EXCEPT ![r] = "apply"]
                         /\ UNCHANGED <<res, thrown>>

\* deletedRecord?.[primaryKey]: never throws
DeletedRecordIdOptional(deletedRecord, primaryKey) == NoError

\* deletedRecord[primaryKey], evaluated for the audit call: throws on undefined
DeletedRecordId(deletedRecord, primaryKey) ==
    IF deletedRecord = {} THEN TypeError ELSE NoError

\* the DELETE ... RETURNING * and the code up to the audit call
DeleteApply(r) ==
    /\ pc[r] = "apply"
    /\ UNCHANGED <<stmtVars, queryVars, schemaVars, authVars>>
    /\ req[r].op = "delete"
    /\ LET q == req[r]
           del == StoreDelete(db[q.tableName], q.tableName,
                              q.searchCriteria.field, q.searchCriteria.value)
       IN  /\ UNCHANGED <<auditSeq, req, oldRecord, columns, written, auditResult>>
           /\ IF del.err # NoError
              THEN /\ Catch(r, del.err)
                   /\ UNCHANGED <<db, result, touched>>
              ELSE /\ db' = [db EXCEPT ![q.tableName] = del.rows]
                   /\ touched' = [touched EXCEPT ![r] = del.hit]
                   /\ \E first \in FirstRows(del.out) :
                        /\ result' = [result EXCEPT ![r] = first]
                        /\ IF DeletedRecordId(first, PrimaryKeyOf(q.tableName)) # NoError
                           THEN Catch(r, TypeError)
                           ELSE /\ pc' = [pc EXCEPT ![r] = "audit"]
                                /\ UNCHANGED <<res, thrown>>

----------------------------------------------------------------------------
(* logAuditAction and the response *)

\* action.toUpperCase()
ToUpperCase(op) ==
    IF op = "create" THEN "CREATE" ELSE IF op = "update" THEN "UPDATE" ELSE "DELETE"

\* the oldValues each handler passes to logAuditAction
OldValuesOf(r) == IF req[r].op = "create" THEN {} ELSE oldRecord[r]

\* the newValues each handler passes to logAuditAction
NewValuesOf(r) == IF req[r].op = "delete" THEN {} ELSE result[r]

\* the row logAuditAction inserts into audit_log
AuditRow(r) ==
    [id |-> ToString(auditSeq + 1),
     action |-> ToUpperCase(req[r].op),
     table_name |-> req[r].tableName,
     record_id |-> RecordIdOf(result[r], PrimaryKeyOf(req[r].tableName)),
     old_values |-> OldValuesOf(r),
     new_values |-> NewValuesOf(r)]

\* logAuditAction rethrowing: the handler's catch turns the failure into an error
AuditFailureRethrown(r) ==
    /\ auditResult' = [auditResult EXCEPT ![r] = "failed"]
    /\ Catch(r, "ECONNREFUSED")

\* What a failed audit INSERT does to the request: the catch of logAuditAction
\* logs the error and returns.
AuditFailure(r) ==
    /\ auditResult' = [auditResult EXCEPT ![r] = "failed"]
    /\ pc' = [pc EXCEPT ![r] = "respond"]
    /\ UNCHANGED <<res, thrown>>

\* a handler without its audit call
LogAuditActionSkipped(r) ==
    /\ pc[r] = "audit"
    /\ UNCHANGED <<stmtVars, queryVars, schemaVars, authVars>>
    /\ pc' = [pc EXCEPT ![r] = "respond"]
    /\ UNCHANGED <<db, auditSeq, req, oldRecord, result, columns, touched, written,
                   auditResult, res, thrown>>

\* await logAuditAction({...}): the INSERT INTO audit_log succeeds or fails
LogAuditAction(r) ==
    /\ pc[r] = "audit"
    /\ UNCHANGED <<stmtVars, queryVars, schemaVars, authVars>>
    /\ UNCHANGED <<req, oldRecord, result, columns, touched>>
    /\ \/ /\ db' = [db EXCEPT !["audit_log"] = @ \cup {AuditRow(r)}]
          /\ auditSeq' = auditSeq + 1
          /\ written' = [written EXCEPT ![r] = Append(@, AuditRow(r))]
          /\ auditResult' = [auditResult EXCEPT ![r] = "written"]
          /\ pc' = [pc EXCEPT ![r] = "respond"]
          /\ UNCHANGED <<res, thrown>>
       \/ /\ AuditFailure(r)
          /\ UNCHANGED <<db, auditSeq, written>>

\* res.json({success: true, ...})
Respond(r) ==
    /\ pc[r] = "respond"
    /\ UNCHANGED <<stmtVars, queryVars, schemaVars, authVars>>
    /\ res' = [res EXCEPT ![r] = [status |-> 200, success |-> TRUE, data |-> result[r]]]
    /\ pc' = [pc EXCEPT ![r] = "done"]
    /\ UNCHANGED <<db, auditSeq, req, oldRecord, result, columns, touched, written,
                   auditResult, thrown>>

----------------------------------------------------------------------------
(* Statements the store rejects for a reason the modelled tables do not decide *)

ForeignKeyViolation == "23503"
ConnectionRefused == "ECONNREFUSED"

\* every request the three handlers are sent
Requests == CreateRequests \cup UpdateRequests \cup DeleteRequests

\* the request passes the checks that come before its first statement on the table
ReachesStatement(q) ==
    /\ validateTableAccess(q.tableName)
    /\ q.op = "create" => DOMAIN CleanData(q.data) # {}
    /\ q.op = "update" => ~InvalidUpdateCriteria(q.searchCriteria)
    /\ q.op = "delete" => ~InvalidDeleteCriteria(q.searchCriteria)

\* throw new Error(`Error al obtener esquema de la tabla ...`): the error that
\* leaves getTableSchema has the message of the one caught and no code
SchemaFailure == "Error"

\* await pool.query(...) of the handler, or the query of validateTableAccess,
\* rejected: the connection is refused, or (INSERT, UPDATE, DELETE) a foreign key
\* is violated. The error reaches the handler's catch as the store raised it.
StatementFails(r) ==
    /\ UNCHANGED <<stmtVars, queryVars, schemaVars, authVars>>
    /\ UNCHANGED <<db, auditSeq, oldRecord, result, columns, touched, written,
                   auditResult>>
    /\ \/ /\ pc[r] = "new"
          /\ \E q \in Requests :
               /\ req' = [req EXCEPT ![r] = q]
               /\ \/ Catch(r, ConnectionRefused)
                  \/ /\ q.op = "create"
                     /\ ReachesStatement(q)
                     /\ Catch(r, ForeignKeyViolation)
       \/ /\ pc[r] = "apply"
          /\ UNCHANGED req
          /\ \E code \in {ForeignKeyViolation, ConnectionRefused} : Catch(r, code)

\* a query of getTableSchema rejected because the connection is refused: the
\* catch of getTableSchema rethrows it as a new Error
SchemaFails(r) ==
    /\ pc[r] = "new"
    /\ UNCHANGED <<stmtVars, queryVars, schemaVars, authVars>>
    /\ UNCHANGED <<db, auditSeq, oldRecord, result, columns, touched, written,
                   auditResult>>
    /\ \E q \in Requests :
         /\ validateTableAccess(q.tableName)
         /\ req' = [req EXCEPT ![r] = q]
         /\ pc' = [pc EXCEPT ![r] = "done"]
         /\ res' = [res EXCEPT ![r] = ErrorResponse(handlePostgresError(SchemaFailure))]
         /\ thrown' = [thrown EXCEPT ![r] = ConnectionRefused]

----------------------------------------------------------------------------

Next ==
    \E r \in Reqs :
        \/ CreateInsert(r)
        \/ UpdateSelect(r)
        \/ UpdateApply(r)
        \/ DeleteSelect(r)
        \/ DeleteApply(r)
        \/ LogAuditAction(r)
        \/ Respond(r)

Spec == Init /\ [][Next]_vars

\* The handlers against a store that can also refuse the connection or report a
\* foreign-key violation.
FaultNext ==
    \/ Next
    \/ \E r \in Reqs : StatementFails(r)
    \/ \E r \in Reqs : SchemaFails(r)

FaultSpec == Init /\ [][FaultNext]_vars

----------------------------------------------------------------------------
(* Properties of the audit trail *)

Entries(r) == {written[r][i] : i \in 1 .. Len(written[r])}

Mutating == {"create", "update", "delete"}

\* C1: every audit entry written by Create, Update or Delete has the shape of
\* its action: an UPDATE entry carries a before- and an after-snapshot, a CREATE
\* entry has a null before-snapshot, a DELETE entry a null after-snapshot.
C1_AuditShape ==
    \A r \in Reqs : \A e \in Entries(r) :
        /\ e.action \in {"CREATE", "UPDATE", "DELETE"}
        /\ e.action = "UPDATE" => e.old_values # {} /\ e.new_values # {}
        /\ e.action = "CREATE" => e.old_values = {}
        /\ e.action = "DELETE" => e.new_values = {}

C1_Witness ==
    \E r1, r2 \in Reqs :
        /\ \E e \in Entries(r1) :
              e.action = "UPDATE" /\ e.old_values # {} /\ e.new_values # {}
        /\ \E e \in Entries(r2) :
              e.action \in {"CREATE", "DELETE"} /\ e \in db["audit_log"]

\* C2: unless the audit write fails, a Create, Update or Delete that answers
\* with success has appended exactly one audit entry, its own, before the
\* response is sent; one that answers with an error has appended none.
C2_OneEntryPerSuccess ==
    \A r \in Reqs :
        /\ pc[r] = "respond" => auditResult[r] # "none"
        /\ (pc[r] \in {"respond", "done"} /\ (pc[r] = "done" => res[r].success)
                /\ auditResult[r] # "failed")
              => /\ Len(written[r]) = 1
                 /\ written[r][1].action = ToUpperCase(req[r].op)
                 /\ written[r][1].table_name = req[r].tableName
        /\ (pc[r] = "done" /\ ~res[r].success) => written[r] = <<>>

C2_Witness ==
    \E r1, r2 \in Reqs :
        /\ pc[r1] = "done" /\ res[r1].success /\ Len(written[r1]) = 1
        /\ pc[r2] = "done" /\ ~res[r2].success /\ req[r2].op \in Mutating

\* C3: the audit log is append-only: no request removes or changes a row of
\* audit_log.
C3_AppendOnly == [][db["audit_log"] \subseteq db'["audit_log"]]_vars

\* C4: a failed audit write leaves the store as it is and the request goes on
\* to answer with success and the row it would have returned anyway; only the
\* audit entry is missing.
C4_AuditFailureSwallowed ==
    [][\A r \in Reqs :
          /\ (auditResult[r] # "failed" /\ auditResult'[r] = "failed")
                => /\ db' = db
                   /\ written'[r] = <<>>
                   /\ pc'[r] = "respond"
          /\ (auditResult[r] = "failed" /\ pc[r] # "done" /\ pc'[r] = "done")
                => /\ res'[r] = [status |-> 200, success |-> TRUE, data |-> result[r]]
                   /\ result[r] # {}
                   /\ written'[r] = <<>>]_vars

C4_Witness ==
    \E r \in Reqs :
        /\ auditResult[r] = "failed" /\ pc[r] = "done" /\ res[r].success
        /\ req[r].op = "update" /\ result[r] \subseteq db[req[r].tableName]

\* the row x with the fields of the payload replaced
ApplyPayload(x, payload) ==
    [c \in DOMAIN x |-> IF c \in DOMAIN payload THEN payload[c] ELSE x[c]]

\* C5: the before-snapshot of an UPDATE or DELETE entry is the content the row
\* had when the mutation took effect, and the after-snapshot of an UPDATE entry
\* is that before-snapshot with the payload's fields replaced.
C5_SnapshotsAreAtomic ==
    \A r \in Reqs : \A e \in Entries(r) :
        /\ e.action \in {"UPDATE", "DELETE"} => e.old_values \subseteq touched[r]
        /\ e.action = "UPDATE" =>
              e.new_values = {ApplyPayload(x, CleanUpdateData(req[r].data)) : x \in e.old_values}

\* C8: an Update or Delete whose criterion names a column and a value that no
\* row has answers 404, changes no row and appends no audit entry.
C8_NoMatchIsNotFound ==
    [][\A r \in Reqs :
          LET q == req'[r]
              c == q.searchCriteria
          IN  (/\ pc[r] = "new" /\ pc'[r] # "new"
               /\ q.op \in {"update", "delete"}
               /\ validateTableAccess(q.tableName)
               /\ c.field \in ColumnsOf(q.tableName)
               /\ c.value # JsUndefined
               /\ ~\E x \in db[q.tableName] : Matches(x, c.field, c.value))
              => /\ res'[r].status = 404
                 /\ pc'[r] = "done"
                 /\ db' = db
                 /\ written' = written]_vars

\* C9: a Delete that succeeds leaves no row matching its criterion, leaves
\* every other row as it was, and its audit entry's before-snapshot is the
\* last content of a row it removed.
C9_DeleteFrame ==
    [][\A r \in Reqs :
          LET q == req[r]
              c == q.searchCriteria
          IN  q.op = "delete" =>
                /\ (pc[r] = "apply" /\ pc'[r] = "audit")
                      => /\ ~\E x \in db'[q.tableName] : Matches(x, c.field, c.value)
                         /\ db'[q.tableName] =
                               {x \in db[q.tableName] : ~Matches(x, c.field, c.value)}
                /\ (pc[r] = "audit" /\ auditResult'[r] = "written")
                      => \A e \in Entries(r)' :
                            e.old_values # {} /\ e.old_values \subseteq touched[r]]_vars

\* C10: Create drops the fields that are null, undefined or ''; with none left
\* it answers 400 and writes nothing; otherwise it inserts exactly the fields
\* that are left, with their values.
C10_CreateStripsEmptyFields ==
    [][\A r \in Reqs :
          LET q == req'[r]
              kept == {k \in DOMAIN q.data : q.data[k] \notin {JsNull, JsUndefined, JsEmpty}}
          IN  (/\ pc[r] = "new" /\ pc'[r] # "new"
               /\ q.op = "create"
               /\ validateTableAccess(q.tableName))
              => /\ kept = {} => /\ res'[r].status = 400
                                 /\ pc'[r] = "done"
                                 /\ db' = db
                                 /\ written' = written
                 /\ kept # {} => /\ columns'[r] = kept
                                 /\ res'[r].status # 400
                 /\ pc'[r] = "audit" =>
                       /\ result'[r] # {}
                       /\ db'[q.tableName] = db[q.tableName] \cup result'[r]
                       /\ \A x \in result'[r] : \A k \in DOMAIN x :
                             x[k] = IF k \in kept THEN q.data[k]
                                    ELSE DefaultOf(q.tableName, k, auditSeq)]_vars

C10_Witness ==
    \E r1, r2 \in Reqs :
        /\ req[r1].op = "create" /\ res[r1].status = 400
        /\ req[r2].op = "create" /\ pc[r2] = "done" /\ res[r2].success
        /\ columns[r2] # DOMAIN req[r2].data

----------------------------------------------------------------------------
(* Statement text.  A text is a sequence whose elements are the characters   *)
(* of caller-supplied strings, one element each, and the fixed fragments of  *)
(* the handlers' template literals.  DQ is the double quote.                 *)

DQ == "\""

MaxNameLen == 2

MaxKeys == 2

\* the characters a caller-supplied name is made of here
NameChars == {"a", DQ}

Names == UNION {[1 .. n -> NameChars] : n \in 1 .. MaxNameLen}

\* Object.keys(...) of a payload: up to MaxKeys names, in insertion order
KeyLists == UNION {[1 .. n -> Names] : n \in 0 .. MaxKeys}

\* the values of a payload or criterion
ParamValues == {<<"1">>, <<"'">>}

\* the table names that pass validateTableAccess
StmtTables == {<<"t">>}

\* the columns of that table in the resolved schema, and its primary key
StmtColumns == {<<"a">>, <<"i", "d">>}

StmtPrimaryKey == <<"i", "d">>

RECURSIVE Concat(_)
\* Array.prototype.join('') of a list of texts
Concat(texts) == IF texts = <<>> THEN <<>> ELSE Head(texts) \o Concat(Tail(texts))

RECURSIVE Join(_, _)
\* Array.prototype.join(sep)
Join(texts, sep) ==
    IF texts = <<>> THEN <<>>
    ELSE IF Len(texts) = 1 THEN texts[1]
    ELSE texts[1] \o sep \o Join(Tail(texts), sep)

\* the identifier with every double quote doubled, between double quotes
QuoteIdentEscaped(name) ==
    <<DQ>> \o Concat([i \in 1 .. Len(name) |->
                        IF name[i] = DQ THEN <<DQ, DQ>> ELSE <<name[i]>>]) \o <<DQ>>

\* `"${name}"`
QuoteIdent(name) == <<DQ>> \o name \o <<DQ>>

\* `$${index + 1}`
Placeholder(i) == <<"$" \o ToString(i)>>

\* INSERT INTO "t" (cols) VALUES ($1, ...) RETURNING *
InsertQuery(tableName, cols) ==
    <<"INSERT INTO ">> \o QuoteIdent(tableName) \o <<" (">>
      \o Join([i \in 1 .. Len(cols) |-> QuoteIdent(cols[i])], <<", ">>)
      \o <<") VALUES (">>
      \o Join([i \in 1 .. Len(cols) |-> Placeholder(i)], <<", ">>)
      \o <<") RETURNING *">>

\* SELECT * FROM "t" WHERE "f" = $1
SelectQuery(tableName, field) ==
    <<"SELECT * FROM ">> \o QuoteIdent(tableName) \o <<" WHERE ">>
      \o QuoteIdent(field) \o <<" = ">> \o Placeholder(1)

\* UPDATE "t" SET "c" = $i, ... WHERE "f" = $n RETURNING *
UpdateQuery(tableName, cols, field) ==
    <<"UPDATE ">> \o QuoteIdent(tableName) \o <<" SET ">>
      \o Join([i \in 1 .. Len(cols) |-> QuoteIdent(cols[i]) \o <<" = ">> \o Placeholder(i)],
              <<", ">>)
      \o <<" WHERE ">> \o QuoteIdent(field) \o <<" = ">> \o Placeholder(Len(cols) + 1)
      \o <<" RETURNING *">>

\* DELETE FROM "t" WHERE "f" = $1 RETURNING *
DeleteQuery(tableName, field) ==
    <<"DELETE FROM ">> \o QuoteIdent(tableName) \o <<" WHERE ">>
      \o QuoteIdent(field) \o <<" = ">> \o Placeholder(1) \o <<" RETURNING *">>

----------------------------------------------------------------------------
(* buildSearchCondition *)

UpperCase == <<"A", "B", "C", "D", "E", "F", "G", "H", "I", "J", "K", "L", "M", "N", "O", "P", "Q", "R", "S", "T", "U", "V", "W", "X", "Y", "Z">>

LowerCase == <<"a", "b", "c", "d", "e", "f", "g", "h", "i", "j", "k", "l", "m", "n", "o", "p", "q", "r", "s", "t", "u", "v", "w", "x", "y", "z">>

\* String.prototype.toLowerCase, character by character
LowerChar(c) ==
    IF \E i \in 1 .. Len(UpperCase) : UpperCase[i] = c
    THEN LowerCase[CHOOSE i \in 1 .. Len(UpperCase) : UpperCase[i] = c]
    ELSE c

ToLowerCase(str) == [i \in 1 .. Len(str) |-> LowerChar(str[i])]

\* String.prototype.includes
Includes(str, sub) ==
    \E i \in 1 .. (Len(str) - Len(sub) + 1) : SubSeq(str, i, i + Len(sub) - 1) = sub

Digits == <<"0", "1", "2", "3", "4", "5", "6", "7", "8", "9">>

IsDigit(c) == \E i \in 1 .. Len(Digits) : Digits[i] = c

DigitValue(c) == (CHOOSE i \in 1 .. Len(Digits) : Digits[i] = c) - 1

RECURSIVE TrimStart(_)
TrimStart(str) ==
    IF str # <<>> /\ Head(str) = " " THEN TrimStart(Tail(str)) ELSE str

RECURSIVE TrimEnd(_)
TrimEnd(str) ==
    IF str # <<>> /\ str[Len(str)] = " " THEN TrimEnd(SubSeq(str, 1, Len(str) - 1)) ELSE str

Trim(str) == TrimEnd(TrimStart(str))

\* the unsigned part of a text after its sign, if it has one
Unsigned(str) == IF str # <<>> /\ Head(str) \in {"-", "+"} THEN Tail(str) ELSE str

\* isNaN(searchText): Number(searchText) is NaN.  Number() of a text that is
\* empty or blank is 0; of a signed run of digits, that number; NaN otherwise.
isNaN(searchText) ==
    LET t == Trim(searchText) IN
    ~ \/ t = <<>>
      \/ /\ Unsigned(t) # <<>>
         /\ \A i \in 1 .. Len(Unsigned(t)) : IsDigit(Unsigned(t)[i])

RECURSIVE DigitPrefix(_)
DigitPrefix(str) ==
    IF str # <<>> /\ IsDigit(Head(str)) THEN <<Head(str)>> \o DigitPrefix(Tail(str)) ELSE <<>>

RECURSIVE DigitsToInt(_)
DigitsToInt(ds) ==
    IF ds = <<>> THEN 0 ELSE 10 * DigitsToInt(SubSeq(ds, 1, Len(ds) - 1)) + DigitValue(ds[Len(ds)])

NumberValue(n) == [kind |-> "number", nan |-> FALSE, num |-> n, text |-> <<>>, bool |-> FALSE]
NaNValue == [kind |-> "number", nan |-> TRUE, num |-> 0, text |-> <<>>, bool |-> FALSE]
TextValue(t) == [kind |-> "text", nan |-> FALSE, num |-> 0, text |-> t, bool |-> FALSE]
BoolValue(b) == [kind |-> "boolean", nan |-> FALSE, num |-> 0, text |-> <<>>, bool |-> b]

\* parseFloat(searchText): the number its longest numeric prefix denotes, after
\* leading blanks; NaN when there is no such prefix.
parseFloat(searchText) ==
    LET t == TrimStart(searchText)
        ds == DigitPrefix(Unsigned(t))
    IN  IF ds = <<>> THEN NaNValue
        ELSE NumberValue(IF Head(t) = "-" THEN 0 - DigitsToInt(ds) ELSE DigitsToInt(ds))

\* `%${searchText}%`
Wildcards(searchText) == TextValue(<<"%">> \o searchText \o <<"%">>)

\* CAST("field" AS TEXT) ILIKE $1
CastILike(fieldName) == <<"CAST(">> \o QuoteIdent(fieldName) \o <<" AS TEXT) ILIKE ", "$1">>

\* "field" ILIKE $1
ILike(fieldName) == QuoteIdent(fieldName) \o <<" ILIKE ", "$1">>

\* "field" = $1
Equals(fieldName) == QuoteIdent(fieldName) \o <<" = ", "$1">>

TruthyWords ==
    { <<"t", "r", "u", "e">>, <<"1">>, <<"s", "i-acute">>, <<"s", "i">>, <<"y", "e", "s">>, <<"t">>, <<"v", "e", "r", "d", "a", "d", "e", "r", "o">> }

UuidLength == 36

IsNumericType(l) ==
    \/ Includes(l, <<"i", "n", "t">>) \/ Includes(l, <<"n", "u", "m", "e", "r", "i", "c">>) \/ Includes(l, <<"d", "e", "c", "i", "m", "a", "l">>)
    \/ Includes(l, <<"f", "l", "o", "a", "t">>) \/ Includes(l, <<"d", "o", "u", "b", "l", "e">>) \/ Includes(l, <<"b", "i", "g", "i", "n", "t">>)
    \/ Includes(l, <<"r", "e", "a", "l">>) \/ Includes(l, <<"m", "o", "n", "e", "y">>)

IsBooleanType(l) == Includes(l, <<"b", "o", "o", "l">>)

IsDateType(l) ==
    Includes(l, <<"d", "a", "t", "e">>) \/ Includes(l, <<"t", "i", "m", "e", "s", "t", "a", "m", "p">>) \/ Includes(l, <<"t", "i", "m", "e">>)

IsUserDefinedType(l) ==
    Includes(l, <<"u", "s", "e", "r", "-", "d", "e", "f", "i", "n", "e", "d">>) \/ l = <<"u", "s", "e", "r", "_", "d", "e", "f", "i", "n", "e", "d">> \/ Includes(l, <<"e", "n", "u", "m">>)

IsTextType(l) ==
    \/ Includes(l, <<"t", "e", "x", "t">>) \/ Includes(l, <<"v", "a", "r", "c", "h", "a", "r">>) \/ Includes(l, <<"c", "h", "a", "r">>)
    \/ Includes(l, <<"c", "h", "a", "r", "a", "c", "t", "e", "r">>) \/ Includes(l, <<"s", "t", "r", "i", "n", "g">>) \/ Includes(l, <<"n", "a", "m", "e">>)
    \/ Includes(l, <<"c", "i", "t", "e", "x", "t">>)

IsArrayType(l) == Includes(l, <<"a", "r", "r", "a", "y">>) \/ Includes(l, <<"[", "]">>)

IsUuidType(l) == Includes(l, <<"u", "u", "i", "d">>)

IsJsonType(l) == Includes(l, <<"j", "s", "o", "n">>)

\* the else-if chain of buildSearchCondition: the branch a type and a text take
SearchBranch(searchText, dataType) ==
    LET l == ToLowerCase(dataType) IN
    IF IsNumericType(l) THEN (IF isNaN(searchText) THEN "numeric-text" ELSE "numeric-exact")
    ELSE IF IsBooleanType(l) THEN "boolean"
    ELSE IF IsDateType(l) THEN "date"
    ELSE IF IsUserDefinedType(l) THEN "user-defined"
    ELSE IF IsTextType(l) THEN "text"
    ELSE IF IsArrayType(l) THEN "array"
    ELSE IF IsUuidType(l)
    THEN (IF Len(searchText) = UuidLength /\ Includes(searchText, <<"-">>)
          THEN "uuid-exact" ELSE "uuid-text")
    ELSE IF IsJsonType(l) THEN "json"
    ELSE "unknown"

\* the condition with the search text spliced into it
buildSearchConditionInline(fieldName, searchText, dataType) ==
    [condition |-> QuoteIdent(fieldName) \o <<" ILIKE '%">> \o searchText \o <<"%'">>,
     value |-> Wildcards(searchText)]

\* buildSearchCondition(fieldName, searchText, dataType): {condition, value}
buildSearchCondition(fieldName, searchText, dataType) ==
    LET branch == SearchBranch(searchText, dataType) IN
    IF branch = "numeric-text"
    THEN [condition |-> CastILike(fieldName), value |-> Wildcards(searchText)]
    ELSE IF branch = "numeric-exact"
    THEN [condition |-> Equals(fieldName), value |-> parseFloat(searchText)]
    ELSE IF branch = "boolean"
    THEN [condition |-> Equals(fieldName),
          value |-> BoolValue(ToLowerCase(searchText) \in TruthyWords)]
    ELSE IF branch = "text"
    THEN [condition |-> ILike(fieldName), value |-> Wildcards(searchText)]
    ELSE IF branch = "uuid-exact"
    THEN [condition |-> Equals(fieldName), value |-> TextValue(searchText)]
    ELSE [condition |-> CastILike(fieldName), value |-> Wildcards(searchText)]

----------------------------------------------------------------------------
(* The statements the handlers hand to pool.query *)

\* the keys of an object are distinct
IsKeyList(cols) == \A i, j \in 1 .. Len(cols) : cols[i] = cols[j] => i = j

\* the declared types (information_schema.columns.data_type) searched on
DeclaredTypes ==
    { <<"i", "n", "t", "e", "g", "e", "r">>, <<"b", "o", "o", "l", "e", "a", "n">>, <<"d", "a", "t", "e">>, <<"U", "S", "E", "R", "-", "D", "E", "F", "I", "N", "E", "D">>, <<"t", "e", "x", "t">>, <<"A", "R", "R", "A", "Y">>,
      <<"u", "u", "i", "d">>, <<"j", "s", "o", "n", "b">>, <<"b", "y", "t", "e", "a">>,
      <<"t", "e", "x", "t", "[", "]">> }

\* a text of the length of a UUID, with a hyphen
UuidText == [i \in 1 .. UuidLength |-> IF i = 9 THEN "-" ELSE "1"]

\* the search texts sent
SearchTexts ==
    { <<>>, <<"4", "2">>, <<"-", "7">>, <<"a">>, <<"S", "i">>, <<" ">>, <<"'">>, UuidText }

Stmt(kind, tableName, cols, field, dataType, branch, values) ==
    [kind |-> kind, tableName |-> tableName, cols |-> cols, field |-> field,
     dataType |-> dataType, branch |-> branch, values |-> values]

\* search: query, with the WHERE of buildSearchCondition when a text is given
SearchQuery(tableName, searchField, searchText, dataType) ==
    <<"SELECT * FROM ">> \o QuoteIdent(tableName)
      \o (IF searchText = <<>> THEN <<>>
          ELSE <<" WHERE ">>
                 \o buildSearchCondition(searchField, searchText, dataType).condition)
      \o <<" ORDER BY ">> \o QuoteIdent(StmtPrimaryKey) \o <<" ASC">>

\* create: insertQuery and its values
BuildInsert ==
    /\ stmt.kind = "none"
    /\ UNCHANGED <<engineVars, queryVars, schemaVars, authVars>>
    /\ \E tableName \in StmtTables, cols \in KeyLists :
         \E values \in [1 .. Len(cols) -> ParamValues] :
           /\ IsKeyList(cols)
           /\ Len(cols) > 0
           /\ sql' = InsertQuery(tableName, cols)
           /\ params' = values
           /\ stmt' = Stmt("insert", tableName, cols, <<>>, <<>>, "", values)

\* update and delete: the SELECT of the pre-image
BuildSelect ==
    /\ stmt.kind = "none"
    /\ UNCHANGED <<engineVars, queryVars, schemaVars, authVars>>
    /\ \E tableName \in StmtTables, field \in Names, value \in ParamValues :
           /\ sql' = SelectQuery(tableName, field)
           /\ params' = <<value>>
           /\ stmt' = Stmt("select", tableName, <<>>, field, <<>>, "", <<value>>)

\* update: updateQuery and [...updateValues, searchCriteria.value]
BuildUpdate ==
    /\ stmt.kind = "none"
    /\ UNCHANGED <<engineVars, queryVars, schemaVars, authVars>>
    /\ \E tableName \in StmtTables, cols \in KeyLists, field \in Names,
          value \in ParamValues :
         \E values \in [1 .. Len(cols) -> ParamValues] :
           /\ IsKeyList(cols)
           /\ sql' = UpdateQuery(tableName, cols, field)
           /\ params' = values \o <<value>>
           /\ stmt' = Stmt("update", tableName, cols, field, <<>>, "", values \o <<value>>)

\* delete: deleteQuery and [searchCriteria.value]
BuildDelete ==
    /\ stmt.kind = "none"
    /\ UNCHANGED <<engineVars, queryVars, schemaVars, authVars>>
    /\ \E tableName \in StmtTables, field \in Names, value \in ParamValues :
           /\ sql' = DeleteQuery(tableName, field)
           /\ params' = <<value>>
           /\ stmt' = Stmt("delete", tableName, <<>>, field, <<>>, "", <<value>>)

\* search: the query and queryParams, or the 400 for a field not in the schema
BuildSearch ==
    /\ stmt.kind = "none"
    /\ UNCHANGED <<engineVars, queryVars, schemaVars, authVars>>
    /\ \E tableName \in StmtTables, searchField \in Names \cup StmtColumns,
          searchText \in SearchTexts, dataType \in DeclaredTypes :
           IF searchText = <<>>
           THEN /\ sql' = SearchQuery(tableName, searchField, searchText, dataType)
                /\ params' = <<>>
                /\ stmt' = Stmt("search", tableName, <<>>, <<>>, <<>>, "all", <<>>)
           ELSE IF searchField \notin StmtColumns
           THEN /\ sql' = <<>>
                /\ params' = <<>>
                /\ stmt' = Stmt("rejected", tableName, <<>>, searchField, <<>>, "", <<>>)
           ELSE /\ sql' = SearchQuery(tableName, searchField, searchText, dataType)
                /\ params' = <<buildSearchCondition(searchField, searchText, dataType).value>>
                /\ stmt' = Stmt("search", tableName, <<>>, searchField, dataType,
                                SearchBranch(searchText, dataType), <<searchText>>)

\* pool.query(sql, params) returns: the handler is done with its statement
StatementDone ==
    /\ stmt.kind # "none"
    /\ UNCHANGED <<engineVars, queryVars, schemaVars, authVars>>
    /\ stmt' = NoStmt
    /\ sql' = <<>>
    /\ params' = <<>>

StmtInit == Init /\ db["datos"] = {}

StmtNext ==
    \/ BuildInsert
    \/ BuildSelect
    \/ BuildUpdate
    \/ BuildDelete
    \/ BuildSearch
    \/ StatementDone

StmtSpec == StmtInit /\ [][StmtNext]_vars

----------------------------------------------------------------------------
(* Properties of the statement text *)

RECURSIVE Lex(_, _)
\* How the store reads a text: a double quote opens an identifier that runs to
\* the next double quote that is not doubled; everything else stands for itself.
Lex(text, inside) ==
    IF text = <<>> THEN (IF inside THEN <<"UNTERMINATED">> ELSE <<>>)
    ELSE IF ~inside
    THEN IF Head(text) = DQ
         THEN Lex(Tail(text), TRUE)
         ELSE <<Head(text)>> \o Lex(Tail(text), FALSE)
    ELSE IF Head(text) = DQ
    THEN IF Len(text) >= 2 /\ text[2] = DQ
         THEN Lex(Tail(Tail(text)), TRUE)
         ELSE <<"IDENT">> \o Lex(Tail(text), FALSE)
    ELSE Lex(Tail(text), TRUE)

Structure(text) == Lex(text, FALSE)

PlainName == <<"a">>

\* the statement of the same request with a plain name for every name
PlainText(st) ==
    LET cols == [i \in 1 .. Len(st.cols) |-> PlainName] IN
    IF st.kind = "insert" THEN InsertQuery(PlainName, cols)
    ELSE IF st.kind = "select" THEN SelectQuery(PlainName, PlainName)
    ELSE IF st.kind = "update" THEN UpdateQuery(PlainName, cols, PlainName)
    ELSE DeleteQuery(PlainName, PlainName)

\* C6: whatever characters a table name, payload key or match field holds, the
\* statement reads as it does for a plain name: every name is one identifier.
C6_IdentifiersAreOpaque ==
    stmt.kind \in {"insert", "select", "update", "delete"}
        => Structure(sql) = Structure(PlainText(stmt))

\* the characters of the values of a request
ValueChars(values) == UNION {{values[i][j] : j \in 1 .. Len(values[i])} : i \in 1 .. Len(values)}

\* C7: values never reach the statement text.  The text of a Create, Update or
\* Delete statement holds no character of a value, the values being the bound
\* parameters; the text of a search is the same for every search text that
\* takes the same branch of Build, and the raw text is in the bound value.
C7_ValuesAreBound ==
    /\ stmt.kind \in {"insert", "select", "update", "delete"} =>
          /\ params = stmt.values
          /\ \A i \in 1 .. Len(sql) : sql[i] \notin ValueChars(stmt.values)
    /\ (stmt.kind = "search" /\ stmt.branch # "all") =>
          /\ \A other \in SearchTexts \ {<<>>} :
                SearchBranch(other, stmt.dataType) = stmt.branch
                   => sql = SearchQuery(stmt.tableName, stmt.field, other, stmt.dataType)
          /\ Len(params) = 1
          /\ params[1].kind = "text" =>
                params[1].text \in {stmt.values[1], <<"%">> \o stmt.values[1] \o <<"%">>}

C7_Witness ==
    /\ stmt.kind = "search"
    /\ stmt.branch = "text"
    /\ stmt.values = << <<"'">> >>
    /\ params = <<TextValue(<<"%", "'", "%">>)>>
    /\ \E other \in SearchTexts \ {<<>>, <<"'">>} : SearchBranch(other, stmt.dataType) = "text"

----------------------------------------------------------------------------
(* The catalog of a table and getTableSchema.  Names and stored texts are    *)
(* strings; Chars gives the characters of each, for the code that looks      *)
(* inside them.                                                              *)

Chars ==
    [ t |-> <<"t">>, T |-> <<"T">>,
      id |-> <<"i", "d">>, ID |-> <<"I", "D">>, cid |-> <<"c", "i", "d">>,
      k |-> <<"k">>, n |-> <<"n">>,
      ab |-> <<"a", "b">>, Ab |-> <<"A", "b">>, b |-> <<"b">> ]
    @@ ("1" :> <<"1">>) @@ ("2" :> <<"2">>)

IntegerType == <<"i", "n", "t", "e", "g", "e", "r">>

TextType == <<"t", "e", "x", "t">>

\* a row of information_schema.columns
Column(name, type) == [column_name |-> name, data_type |-> type]

\* the column lists of the tables asked for, by ordinal_position
ColumnLists ==
    { <<Column("k", IntegerType), Column("n", TextType)>>,
      <<Column("n", TextType), Column("id", IntegerType)>>,
      <<Column("k", IntegerType), Column("cid", IntegerType), Column("ID", IntegerType)>> }

ColumnNames(cols) == {cols[i].column_name : i \in 1 .. Len(cols)}

\* The tables asked for: in information_schema.tables with their columns and,
\* at most, one column flagged indisprimary; a table created without columns;
\* a name that is not in the catalog.
Catalogs ==
    UNION { { [tableName |-> name, listed |-> TRUE, columns |-> cols, primary |-> pk] :
                name \in {"t", "T"},
                pk \in {{}} \cup {{c} : c \in ColumnNames(cols)} } : cols \in ColumnLists }
    \cup { [tableName |-> "t", listed |-> TRUE, columns |-> <<>>, primary |-> {}],
           [tableName |-> "t", listed |-> FALSE, columns |-> <<>>, primary |-> {}] }

\* $1::regclass: the name is read as an identifier is, folded to lower case
\* unless quoted, and must then name a table
RegclassResolves(cat) == cat.listed /\ ToLowerCase(Chars[cat.tableName]) = Chars[cat.tableName]

\* pkResult.rows of the pg_index query; the empty list too when the query
\* throws, the catch leaving primaryKey null
PkResult(cat) == IF RegclassResolves(cat) THEN cat.primary ELSE {}

\* col.column_name.toLowerCase() === 'id' || ...includes('id')
IsIdColumn(col) ==
    \/ ToLowerCase(Chars[col.column_name]) = <<"i", "d">>
    \/ Includes(ToLowerCase(Chars[col.column_name]), <<"i", "d">>)

\* columnsResult.rows.find(...): the first column that passes, if any
IdColumn(cols) ==
    LET hits == {i \in 1 .. Len(cols) : IsIdColumn(cols[i])}
    IN  IF hits = {} THEN {}
        ELSE {cols[CHOOSE i \in hits : \A j \in hits : i <= j].column_name}

\* getTableSchema(tableName).primaryKey for a table that has columns
ResolvedPrimaryKey(cat) ==
    IF PkResult(cat) # {} THEN PkResult(cat)
    ELSE IF IdColumn(cat.columns) # {} THEN IdColumn(cat.columns)
    ELSE {cat.columns[1].column_name}

\* the shadow-catalog variant: the column flagged is_primary_key, else the first
ShadowPrimaryKey(cat) ==
    IF cat.primary # {} THEN cat.primary ELSE {cat.columns[1].column_name}

\* getTableSchema: throws for a table without columns
TableSchema(cat) ==
    IF Len(cat.columns) = 0
    THEN [err |-> TableNotFound, columns |-> <<>>, primaryKey |-> {}]
    ELSE [err |-> NoError, columns |-> cat.columns, primaryKey |-> ResolvedPrimaryKey(cat)]

----------------------------------------------------------------------------
(* The rows of the table and the queries of Read and Search *)

MaxRows == 2

\* the values stored in a column of each declared type
ValuesOf(type) == IF type = IntegerType THEN {"1", "2"} ELSE {"ab", "Ab", "b"}

RowsOf(cols) ==
    {x \in [ColumnNames(cols) -> {"1", "2", "ab", "Ab", "b"}] :
        \A i \in 1 .. Len(cols) : x[cols[i].column_name] \in ValuesOf(cols[i].data_type)}

\* the contents a table of this catalog can have: a declared primary key is unique
Heaps(cat) ==
    {h \in SUBSET RowsOf(cat.columns) :
        /\ Cardinality(h) <= MaxRows
        /\ \A key \in cat.primary : \A x, y \in h : x[key] = y[key] => x = y}

\* the order ORDER BY ... ASC puts the values in: numbers by value, texts by
\* collation, NULL last
SortOrder == <<"0", "1", "2", "3", "4", "5", "6", "7", "8", "9", "ab", "Ab", "b">>

Rank(v) ==
    IF v \in {JsNull, JsUndefined} THEN Len(SortOrder) + 1
    ELSE CHOOSE i \in 1 .. Len(SortOrder) : SortOrder[i] = v

\* the row lists a query without ORDER BY can return
AnyOrder(rows) ==
    {s \in [1 .. Cardinality(rows) -> rows] : \A i, j \in DOMAIN s : s[i] = s[j] => i = j}

\* SELECT ... ORDER BY "key" ASC: the row lists the store can return
OrderBy(rows, key) ==
    {s \in AnyOrder(rows) : \A i, j \in DOMAIN s : i < j => Rank(s[i][key]) <= Rank(s[j][key])}

\* ({_primaryKey: record[primaryKey], ...record, _rowIndex: index}) with the
\* index counted from 0
MapRecordFromZero(record, index, primaryKey) ==
    ("_rowIndex" :> ToString(index - 1)) @@ record @@ ("_primaryKey" :> record[primaryKey])

\* ({_primaryKey: record[primaryKey], ...record, _rowIndex: index + 1}); index
\* is the position counted from 1
MapRecord(record, index, primaryKey) ==
    ("_rowIndex" :> ToString(index)) @@ record @@ ("_primaryKey" :> record[primaryKey])

\* result.rows.map(...)
MappedData(rows, primaryKey) ==
    [i \in 1 .. Len(rows) |-> MapRecord(rows[i], i, primaryKey)]

\* Read with a LIMIT 1 on its query
ReadDataFirstRow(rows, primaryKey) ==
    {MappedData(SubSeq(s, 1, 1), primaryKey) : s \in OrderBy(rows, primaryKey)}

\* Read: the mappedData that SELECT * FROM "t" ORDER BY "pk" ASC can lead to
ReadData(rows, primaryKey) ==
    {MappedData(s, primaryKey) : s \in OrderBy(rows, primaryKey)}

RECURSIVE Like(_, _)
\* str LIKE pattern: % stands for any run of characters, _ for any one
Like(str, pattern) ==
    IF pattern = <<>> THEN str = <<>>
    ELSE IF Head(pattern) = "%"
    THEN Like(str, Tail(pattern)) \/ (str # <<>> /\ Like(Tail(str), pattern))
    ELSE IF Head(pattern) = "_"
    THEN str # <<>> /\ Like(Tail(str), Tail(pattern))
    ELSE str # <<>> /\ Head(str) = Head(pattern) /\ Like(Tail(str), Tail(pattern))

\* str ILIKE pattern
ILikeMatch(str, pattern) == Like(ToLowerCase(str), ToLowerCase(pattern))

\* The rows a WHERE of buildSearchCondition selects: [err, rows].  A NaN bound
\* to the comparison with an integer column is rejected by the store (22P02).
Selected(rows, field, condition) ==
    IF condition.condition = Equals(Chars[field])
    THEN IF condition.value.kind = "number" /\ condition.value.nan
         THEN [err |-> "22P02", rows |-> {}]
         ELSE IF condition.value.kind = "number"
         THEN [err |-> NoError, rows |-> {x \in rows : x[field] = ToString(condition.value.num)}]
         ELSE [err |-> "22P02", rows |-> {}]
    ELSE [err |-> NoError,
          rows |-> {x \in rows : ILikeMatch(Chars[x[field]], condition.value.text)}]

----------------------------------------------------------------------------
(* The query handlers: schema, read, search *)

\* the search texts sent to the query handlers; the empty text is no text
QueryTexts == { <<>>, <<"a">>, <<"B">>, <<"_">>, <<"1">>, <<" ">> }

\* the fields searched on: the table's columns and a name that is none
QueryFields(cat) == ColumnNames(cat.columns) \cup {"zz"}

Reply(kind, status, data, primaryKey, field, text, issued) ==
    [kind |-> kind, status |-> status, success |-> status = 200, data |-> data,
     total |-> Len(data), primaryKey |-> primaryKey, field |-> field, text |-> text,
     issued |-> issued]

\* GET /api/tables/:tableName/schema
Describe ==
    /\ reply.kind = "none"
    /\ UNCHANGED <<engineVars, stmtVars, catalog, heap, schemaVars, authVars>>
    /\ LET schema == TableSchema(catalog) IN
       IF ~catalog.listed
       THEN reply' = Reply("schema", 404, <<>>, {}, "", <<>>, FALSE)
       ELSE IF schema.err # NoError
       THEN reply' = Reply("schema", 500, <<>>, {}, "", <<>>, FALSE)
       ELSE reply' = Reply("schema", 200, <<>>, schema.primaryKey, "", <<>>, FALSE)

\* the schema handler over the shadow-catalog variant of getTableSchema
DescribeShadow ==
    /\ reply.kind = "none"
    /\ UNCHANGED <<engineVars, stmtVars, catalog, heap, schemaVars, authVars>>
    /\ IF ~catalog.listed
       THEN reply' = Reply("shadow", 404, <<>>, {}, "", <<>>, FALSE)
       ELSE IF Len(catalog.columns) = 0
       THEN reply' = Reply("shadow", 500, <<>>, {}, "", <<>>, FALSE)
       ELSE reply' = Reply("shadow", 200, <<>>, ShadowPrimaryKey(catalog), "", <<>>, FALSE)

\* GET /api/tables/:tableName/read
Read ==
    /\ reply.kind = "none"
    /\ UNCHANGED <<engineVars, stmtVars, catalog, heap, schemaVars, authVars>>
    /\ LET schema == TableSchema(catalog) IN
       IF ~catalog.listed
       THEN reply' = Reply("read", handlePostgresError(TableNotFound), <<>>, {}, "", <<>>, FALSE)
       ELSE IF schema.err # NoError
       THEN reply' = Reply("read", handlePostgresError(schema.err), <<>>, {}, "", <<>>, FALSE)
       ELSE \E primaryKey \in schema.primaryKey :
              \E mappedData \in ReadData(heap, primaryKey) :
                 reply' = Reply("read", 200, mappedData, {primaryKey}, "", <<>>, TRUE)

\* the column_name === searchField of tableSchema.columns.find
FieldInfo(cols, searchField) ==
    {cols[i] : i \in {j \in 1 .. Len(cols) : cols[j].column_name = searchField}}

\* GET /api/tables/:tableName/search
Search ==
    /\ reply.kind = "none"
    /\ UNCHANGED <<engineVars, stmtVars, catalog, heap, schemaVars, authVars>>
    /\ \E searchField \in QueryFields(catalog), searchText \in QueryTexts :
       LET schema == TableSchema(catalog)
           fail(status) == Reply("search", status, <<>>, {}, searchField, searchText, FALSE)
       IN
       IF ~catalog.listed THEN reply' = fail(handlePostgresError(TableNotFound))
       ELSE IF schema.err # NoError THEN reply' = fail(handlePostgresError(schema.err))
       ELSE \E primaryKey \in schema.primaryKey :
         IF searchText = <<>>
         THEN \E mappedData \in ReadData(heap, primaryKey) :
                reply' = Reply("search", 200, mappedData, {primaryKey}, searchField, searchText, TRUE)
         ELSE IF FieldInfo(schema.columns, searchField) = {}
         THEN reply' = fail(400)
         ELSE \E fieldInfo \in FieldInfo(schema.columns, searchField) :
                LET searchCondition ==
                        buildSearchCondition(Chars[searchField], searchText, fieldInfo.data_type)
                    found == Selected(heap, searchField, searchCondition)
                IN  IF found.err # NoError
                    THEN reply' = Reply("search", handlePostgresError(found.err), <<>>, {},
                                        searchField, searchText, TRUE)
                    ELSE \E mappedData \in ReadData(found.rows, primaryKey) :
                           reply' = Reply("search", 200, mappedData, {primaryKey},
                                          searchField, searchText, TRUE)

\* the response is sent: the handler is done
ReplyDone ==
    /\ reply.kind # "none"
    /\ UNCHANGED <<engineVars, stmtVars, catalog, heap, schemaVars, authVars>>
    /\ reply' = NoReply

QueryInit ==
    /\ db = [t \in PublicTables |-> {}]
    /\ auditSeq = 0
    /\ pc = [r \in Reqs |-> "new"]
    /\ req = [r \in Reqs |-> NoRequest]
    /\ oldRecord = [r \in Reqs |-> {}]
    /\ result = [r \in Reqs |-> {}]
    /\ columns = [r \in Reqs |-> {}]
    /\ touched = [r \in Reqs |-> {}]
    /\ written = [r \in Reqs |-> <<>>]
    /\ auditResult = [r \in Reqs |-> "none"]
    /\ res = [r \in Reqs |-> NoResponse]
    /\ thrown = [r \in Reqs |-> NoError]
    /\ stmt = NoStmt
    /\ sql = <<>>
    /\ params = <<>>
    /\ catalog \in Catalogs
    /\ heap \in Heaps(catalog)
    /\ reply = NoReply
    /\ SchemaIdle
    /\ AuthIdle

QueryNext ==
    \/ Describe
    \/ DescribeShadow
    \/ Read
    \/ Search
    \/ ReplyDone

QuerySpec == QueryInit /\ [][QueryNext]_vars

----------------------------------------------------------------------------
(* Properties of Create and Update as a following Read shows them *)

\* the body of Create's success response: primaryKey and data
CreateBody(newRecord, primaryKey) ==
    [primaryKey |-> {x[primaryKey] : x \in newRecord}, data |-> newRecord]

\* the columns of a mapped record, without the two annotations
Unmapped(record) == [c \in DOMAIN record \ {"_rowIndex", "_primaryKey"} |-> record[c]]

\* the rows a mappedData shows
Shown(mappedData) == {Unmapped(mappedData[i]) : i \in DOMAIN mappedData}

\* C11: once Create has inserted x, a Read of the table shows a row that has
\* the value of x in every field of x the store did not default, and the
\* primaryKey of Create's response is that row's primary-key value.
C11_CreateRoundTrip ==
    [][\A r \in Reqs :
          LET q == req'[r]
              primaryKey == getTableSchema(q.tableName).primaryKey
              kept == {k \in DOMAIN q.data : q.data[k] \notin {JsNull, JsUndefined, JsEmpty}}
          IN  (pc[r] = "new" /\ pc'[r] = "audit" /\ q.op = "create")
              => \A mappedData \in ReadData(db'[q.tableName], primaryKey) :
                   \E i \in DOMAIN mappedData :
                      /\ \A k \in kept : mappedData[i][k] = q.data[k]
                      /\ CreateBody(result'[r], primaryKey).primaryKey
                            = {mappedData[i]["_primaryKey"]}
                      /\ mappedData[i]["_primaryKey"] = mappedData[i][primaryKey]]_vars

C11_Witness ==
    \E r \in Reqs :
        /\ req[r].op = "create" /\ pc[r] = "done" /\ res[r].success
        /\ result[r] \subseteq db[req[r].tableName]
        /\ \E x \in result[r], y \in db[req[r].tableName] : Rank(y["id"]) < Rank(x["id"])

\* C12: once Update has applied, a Read of the table shows every row that
\* matched with the payload's columns, less _rowIndex and _primaryKey, set to
\* the new values and its other columns as they were, and every other row as
\* it was.
C12_UpdateFrame ==
    [][\A r \in Reqs :
          LET q == req[r]
              c == q.searchCriteria
              primaryKey == getTableSchema(q.tableName).primaryKey
              written_ == DOMAIN q.data \ {"_rowIndex", "_primaryKey"}
              hit == {x \in db[q.tableName] : Matches(x, c.field, c.value)}
              after(x) == [k \in DOMAIN x |-> IF k \in written_ THEN q.data[k] ELSE x[k]]
          IN  (pc[r] = "apply" /\ pc'[r] = "audit" /\ q.op = "update")
              => /\ hit # {}
                 /\ columns'[r] = written_
                 /\ \A mappedData \in ReadData(db'[q.tableName], primaryKey) :
                       Shown(mappedData) = {after(x) : x \in hit} \cup (db[q.tableName] \ hit)]_vars

C12_Witness ==
    \E r \in Reqs :
        /\ req[r].op = "update" /\ pc[r] = "done" /\ res[r].success
        /\ req[r].tableName = "datos"
        /\ \E x \in result[r] : x["a"] = "2" /\ x \in db["datos"]
        /\ \E y \in db["datos"] : y["a"] = "1"

----------------------------------------------------------------------------
(* Properties of the query handlers *)

\* C13: Read answers with every row of the table, in ascending order of the
\* resolved primary key, the i-th row carrying _rowIndex i and the row's
\* primary-key value as _primaryKey, and total is the number of rows.
C13_ReadOrdered ==
    (reply.kind = "read" /\ reply.success) =>
        /\ reply.primaryKey = ResolvedPrimaryKey(catalog)
        /\ Shown(reply.data) = heap
        /\ Len(reply.data) = Cardinality(heap)
        /\ reply.total = Len(reply.data)
        /\ \A key \in reply.primaryKey :
              /\ \A i, j \in DOMAIN reply.data :
                    i < j => Rank(reply.data[i][key]) <= Rank(reply.data[j][key])
              /\ \A i \in DOMAIN reply.data :
                    /\ reply.data[i]["_rowIndex"] = ToString(i)
                    /\ reply.data[i]["_primaryKey"] = reply.data[i][key]

C13_Witness ==
    /\ reply.kind = "read" /\ reply.success /\ reply.total = 2
    /\ \A key \in reply.primaryKey : reply.data[1][key] # reply.data[2][key]

\* C14: a Search that names a field which is no column of the table is
\* answered 400 and issues no query on the table, with or without a text.
C14_UnknownFieldRejected ==
    (/\ reply.kind = "search"
     /\ catalog.listed /\ Len(catalog.columns) > 0
     /\ reply.field \notin ColumnNames(catalog.columns))
        => reply.status = 400 /\ ~reply.issued

\* the declared type of a column of the table
DataTypeOf(cat, field) == {col.data_type : col \in FieldInfo(cat.columns, field)}

\* str contains sub, letter case apart
ContainsIgnoreCase(str, sub) == Includes(ToLowerCase(str), ToLowerCase(sub))

\* C15: a Search with a text on a text column answers with exactly the rows
\* whose value in the column contains the text, letter case apart, ordered
\* and annotated as Read does.
C15_TextSearch ==
    (/\ reply.kind = "search" /\ reply.text # <<>>
     /\ DataTypeOf(catalog, reply.field) = {TextType})
        => /\ reply.success
           /\ Shown(reply.data)
                 = {x \in heap : ContainsIgnoreCase(Chars[x[reply.field]], reply.text)}
           /\ \A key \in reply.primaryKey :
                 /\ \A i, j \in DOMAIN reply.data :
                       i < j => Rank(reply.data[i][key]) <= Rank(reply.data[j][key])
                 /\ \A i \in DOMAIN reply.data :
                       /\ reply.data[i]["_rowIndex"] = ToString(i)
                       /\ reply.data[i]["_primaryKey"] = reply.data[i][key]

\* C18: the primaryKey of a schema is the declared primary-key column when
\* the table declares one; otherwise the first column whose name is or
\* contains id, and the first column when there is none.
C18_PrimaryKeyResolution ==
    (reply.kind \in {"schema", "shadow"} /\ reply.success) =>
        IF catalog.primary # {} THEN reply.primaryKey = catalog.primary
        ELSE IF \E i \in DOMAIN catalog.columns : IsIdColumn(catalog.columns[i])
        THEN \E i \in DOMAIN catalog.columns :
                /\ IsIdColumn(catalog.columns[i])
                /\ reply.primaryKey = {catalog.columns[i].column_name}
        ELSE reply.primaryKey = {catalog.columns[1].column_name}

----------------------------------------------------------------------------
(* Properties of buildSearchCondition *)

\* the category each branch of buildSearchCondition belongs to
BranchCategory(branch) ==
    IF branch \in {"numeric-text", "numeric-exact"} THEN "numeric"
    ELSE IF branch \in {"uuid-exact", "uuid-text"} THEN "uuid"
    ELSE IF branch \in {"json", "array"} THEN "json-array"
    ELSE IF branch = "unknown" THEN "unrecognized"
    ELSE branch

\* the category of a type by the precedence numeric, boolean, date/time,
\* user-defined, UUID, JSON/array, native text, unrecognized
CategoryByPrecedence(l) ==
    IF IsNumericType(l) THEN "numeric"
    ELSE IF IsBooleanType(l) THEN "boolean"
    ELSE IF IsDateType(l) THEN "date"
    ELSE IF IsUserDefinedType(l) THEN "user-defined"
    ELSE IF IsUuidType(l) THEN "uuid"
    ELSE IF IsJsonType(l) \/ IsArrayType(l) THEN "json-array"
    ELSE IF IsTextType(l) THEN "text"
    ELSE "unrecognized"

\* the search query with a given condition
QueryWhere(tableName, condition) ==
    <<"SELECT * FROM ">> \o QuoteIdent(tableName) \o <<" WHERE ">> \o condition
      \o <<" ORDER BY ">> \o QuoteIdent(StmtPrimaryKey) \o <<" ASC">>

\* C16: every declared type is handled by one category, the earliest it
\* matches in the precedence numeric, boolean, date/time, user-defined, UUID,
\* JSON/array, native text; a type that matches none gets the cast-to-text
\* substring condition, and no type is rejected.
C16_DispatchOrder ==
    (stmt.kind = "search" /\ stmt.branch # "all") =>
        /\ BranchCategory(stmt.branch) = CategoryByPrecedence(ToLowerCase(stmt.dataType))
        /\ CategoryByPrecedence(ToLowerCase(stmt.dataType)) = "unrecognized"
              => /\ sql = QueryWhere(stmt.tableName, CastILike(stmt.field))
                 /\ params = <<Wildcards(stmt.values[1])>>

\* a text that is a number written out: digits, with a sign or without,
\* blanks around them apart
IsNumeral(text) ==
    LET t == Unsigned(Trim(text)) IN t # <<>> /\ \A i \in 1 .. Len(t) : IsDigit(t[i])

\* the number a numeral denotes
NumeralValue(text) ==
    LET t == Trim(text)
    IN  IF Head(t) = "-" THEN 0 - DigitsToInt(Unsigned(t)) ELSE DigitsToInt(Unsigned(t))

\* C17: on a numeric column a text that is a number gives the equality
\* condition bound to that number, any other text the cast-to-text substring
\* condition bound to the text between wildcards; the value of an equality
\* condition is a number, never NaN.
C17_NumericSearch ==
    (/\ stmt.kind = "search" /\ stmt.branch # "all"
     /\ IsNumericType(ToLowerCase(stmt.dataType)))
        => /\ IsNumeral(stmt.values[1])
                => /\ sql = QueryWhere(stmt.tableName, Equals(stmt.field))
                   /\ params = <<NumberValue(NumeralValue(stmt.values[1]))>>
           /\ ~IsNumeral(stmt.values[1])
                => /\ sql = QueryWhere(stmt.tableName, CastILike(stmt.field))
                   /\ params = <<Wildcards(stmt.values[1])>>
           /\ sql = QueryWhere(stmt.tableName, Equals(stmt.field))
                => params[1].kind = "number" /\ ~params[1].nan

----------------------------------------------------------------------------
(* Properties of the error responses *)

\* C19: a Create, Update or Delete on a table that is not in the catalog is
\* answered 404, changes no table and appends no audit entry.
C19_AbsentTableNotFound ==
    [][\A r \in Reqs :
          (/\ pc[r] = "new" /\ pc'[r] # "new"
           /\ ~validateTableAccess(req'[r].tableName))
              => /\ res'[r].status = 404
                 /\ pc'[r] = "done"
                 /\ db' = db
                 /\ written' = written]_vars

----------------------------------------------------------------------------
\* C20: a store error raised during Create, Update or Delete is answered by
\* category: a uniqueness violation (23505) as a conflict (409), a foreign-key
\* violation (23503) as a referential error (400), a refused connection as a
\* transient error (503); the request ends there without a retry, the response is
\* a structured failure, the step leaves every table as it was and the request
\* has appended no audit entry.
StatusOfCategory(code) ==
    IF code = "23505" THEN 409
    ELSE IF code = ForeignKeyViolation THEN 400
    ELSE 503

C20_ErrorTranslation ==
    [][\A r \in Reqs :
          (thrown[r] = NoError
             /\ thrown'[r] \in {"23505", ForeignKeyViolation, ConnectionRefused})
          => /\ pc'[r] = "done"
             /\ res'[r] = ErrorResponse(StatusOfCategory(thrown'[r]))
             /\ db' = db
             /\ touched'[r] = {}
             /\ written'[r] = <<>>]_vars

----------------------------------------------------------------------------
(* getTableSchema, query by query: the calls of concurrent requests over a  *)
(* catalog that DDL can change                                               *)

\* a row of the foreign-key query
ForeignKeyRow(col) ==
    [column_name |-> col, foreign_table_name |-> "t", foreign_column_name |-> "id"]

\* the foreign keys a table with these columns can declare: none, or one on its
\* first column
FkSets(cat) ==
    IF Len(cat.columns) = 0 THEN {{}}
    ELSE {{}, {ForeignKeyRow(cat.columns[1].column_name)}}

\* fkResult.rows.forEach(row => foreignKeys[row.column_name] = {table, column})
ForeignKeys(rows) ==
    [c \in {x.column_name : x \in rows} |->
        LET x == CHOOSE y \in rows : y.column_name = c
        IN  [table |-> x.foreign_table_name, column |-> x.foreign_column_name]]

\* a primary key that depends on the calls in flight
PrimaryKeyFromShared(pk, cols) ==
    IF pk # {} /\ \A h \in Reqs : calls[h].pc \in {"idle", "done"} THEN pk
    ELSE IF IdColumn(cols) # {} THEN IdColumn(cols)
    ELSE {cols[1].column_name}

\* primaryKey: the first row of pkResult, else the first id-like column of
\* columnsResult, else its first column
PrimaryKeyFrom(pk, cols) ==
    IF pk # {} THEN pk
    ELSE IF IdColumn(cols) # {} THEN IdColumn(cols)
    ELSE {cols[1].column_name}

\* {columns, foreignKeys, primaryKey}
SchemaOf(call) ==
    [columns |-> call.columns, foreignKeys |-> call.foreignKeys,
     primaryKey |-> call.primaryKey]

\* the columns query and the zero-columns check
ColumnsQuery(g) ==
    /\ calls[g].pc = "idle"
    /\ UNCHANGED <<engineVars, stmtVars, queryVars, authVars, fks, computed>>
    /\ IF Len(catalog.columns) = 0
       THEN calls' = [calls EXCEPT ![g] = [@ EXCEPT !.pc = "done", !.err = SchemaFailure]]
       ELSE calls' = [calls EXCEPT ![g] = [@ EXCEPT !.pc = "fk", !.columns = catalog.columns]]

\* the foreign-key query
FkQuery(g) ==
    /\ calls[g].pc = "fk"
    /\ UNCHANGED <<engineVars, stmtVars, queryVars, authVars, fks, computed>>
    /\ calls' = [calls EXCEPT ![g] = [@ EXCEPT !.pc = "pk", !.foreignKeys = ForeignKeys(fks)]]

\* the primary-key query, the fallback and the return
PkQuery(g) ==
    /\ calls[g].pc = "pk"
    /\ UNCHANGED <<engineVars, stmtVars, queryVars, authVars, fks>>
    /\ LET primaryKey == PrimaryKeyFrom(PkResult(catalog), calls[g].columns)
           call == [calls[g] EXCEPT !.pc = "done", !.primaryKey = primaryKey]
       IN  /\ calls' = [calls EXCEPT ![g] = call]
           /\ computed' = IF computed = {} THEN {SchemaOf(call)} ELSE computed

\* DDL on the table between two queries: its primary key or its foreign keys
\* change; the table and its columns stay
AlterTable ==
    /\ catalog.listed
    /\ UNCHANGED <<engineVars, stmtVars, heap, reply, authVars, computed>>
    /\ \E cat \in Catalogs :
         /\ cat.tableName = catalog.tableName
         /\ cat.listed
         /\ cat.columns = catalog.columns
         /\ catalog' = cat
         /\ fks' \in FkSets(cat)
         /\ <<cat, fks'>> # <<catalog, fks>>
    /\ calls' = [g \in Reqs |->
                    IF calls[g].pc = "idle" THEN calls[g]
                    ELSE [calls[g] EXCEPT !.stable = FALSE]]

SchemaInit ==
    /\ db = [t \in PublicTables |-> {}]
    /\ auditSeq = 0
    /\ pc = [r \in Reqs |-> "new"]
    /\ req = [r \in Reqs |-> NoRequest]
    /\ oldRecord = [r \in Reqs |-> {}]
    /\ result = [r \in Reqs |-> {}]
    /\ columns = [r \in Reqs |-> {}]
    /\ touched = [r \in Reqs |-> {}]
    /\ written = [r \in Reqs |-> <<>>]
    /\ auditResult = [r \in Reqs |-> "none"]
    /\ res = [r \in Reqs |-> NoResponse]
    /\ thrown = [r \in Reqs |-> NoError]
    /\ stmt = NoStmt
    /\ sql = <<>>
    /\ params = <<>>
    /\ catalog \in Catalogs
    /\ heap = {}
    /\ reply = NoReply
    /\ fks \in FkSets(catalog)
    /\ calls = [g \in Reqs |-> NoCall]
    /\ computed = {}
    /\ AuthIdle

SchemaNext ==
    \/ \E g \in Reqs : ColumnsQuery(g)
    \/ \E g \in Reqs : FkQuery(g)
    \/ \E g \in Reqs : PkQuery(g)
    \/ AlterTable

SchemaSpec == SchemaInit /\ [][SchemaNext]_vars

\* C21: once a TableSchema has been computed for the table, every later
\* getTableSchema call for it asks the catalog nothing and returns that schema,
\* whatever has changed in the catalog since.
C21_SchemaCached ==
    [][\A g \in Reqs :
          (computed # {} /\ calls[g].pc = "idle" /\ calls'[g].pc # "idle")
          => /\ calls'[g].pc = "done"
             /\ calls'[g].err = NoError
             /\ SchemaOf(calls'[g]) \in computed]_vars

----------------------------------------------------------------------------
\* C23: Delete holds a criterion to the contract Update holds it to: a Delete
\* answers 400 for its criterion exactly when Update's check rejects that
\* criterion, an Update answers 400 exactly when Delete's check rejects it, and
\* a criterion with which an Update has read its row is one Delete's check accepts.
C23_SameCriterionContract ==
    [][\A r \in Reqs :
          LET q == req'[r]
              rejected == pc'[r] = "done" /\ res'[r].status = 400
          IN  (/\ pc[r] = "new" /\ pc'[r] # "new"
               /\ q.op \in {"update", "delete"}
               /\ validateTableAccess(q.tableName)
               /\ thrown'[r] = NoError)
              => /\ q.op = "delete" => (rejected <=> InvalidUpdateCriteria(q.searchCriteria))
                 /\ q.op = "update" => (rejected <=> InvalidDeleteCriteria(q.searchCriteria))
                 /\ (q.op = "update" /\ pc'[r] = "apply")
                       => ~InvalidDeleteCriteria(q.searchCriteria)]_vars

----------------------------------------------------------------------------
\* C26: every row an Update changed or a Delete removed is the row whose
\* before-snapshot the request's audit entry holds: the request touched one row
\* at most, and its entry's old_values is that row as it was.
C26_MutationsAreAudited ==
    \A r \in Reqs :
        (req[r].op \in {"update", "delete"} /\ auditResult[r] = "written")
        => /\ Cardinality(touched[r]) <= 1
           /\ \A x \in touched[r] : \E e \in Entries(r) : e.old_values = {x}

----------------------------------------------------------------------------
\* C27: when two Delete requests with the same criterion have both been
\* answered, no other request has run, the table held exactly one row matching
\* the criterion and no audit write failed, then exactly one of the two answered
\* with success, it appended one DELETE entry, and the other answered with an
\* error and appended nothing, whatever the order of their steps.
DeletePair(g, h) ==
    /\ g # h
    /\ req[g] = req[h]
    /\ req[g].op = "delete"
    /\ pc[g] = "done" /\ pc[h] = "done"
    /\ \A o \in Reqs \ {g, h} : pc[o] = "new"
    /\ auditResult[g] # "failed" /\ auditResult[h] # "failed"
    /\ validateTableAccess(req[g].tableName)
    /\ req[g].searchCriteria.field \in ColumnsOf(req[g].tableName)
    /\ LET before == db[req[g].tableName] \cup touched[g] \cup touched[h]
       IN  Cardinality({x \in before : Matches(x, req[g].searchCriteria.field,
                                                  req[g].searchCriteria.value)}) = 1

----------------------------------------------------------------------------
(* The middleware chain in front of the handlers: requireAuth, requireAdmin *)

\* a token as jwt.verify sees it: signed with JWT_SECRET or not, past its exp or
\* not, and the rol of its payload
Jwt(signed, expired, rol) ==
    [present |-> TRUE, signed |-> signed, expired |-> expired, rol |-> rol]

\* what requests carry: no token, a token that is not signed with the secret,
\* an expired token of an admin, a current token of an employee and of an admin
Credentials ==
    { NoJwt,
      Jwt(FALSE, FALSE, "admin"),
      Jwt(TRUE, TRUE, "admin"),
      Jwt(TRUE, FALSE, "empleado"),
      Jwt(TRUE, FALSE, "admin") }

TableRoutes == {"create", "read", "search", "update", "delete"}

AdminRoutes == {"audit-logs"}

Routes == TableRoutes \cup AdminRoutes

\* jwt.decode in place of jwt.verify: the payload is read, nothing is checked
VerifyDecodeOnly(token) == NoError

\* jwt.verify(token, JWT_SECRET): the name of the error thrown, if any
Verify(token) ==
    IF ~token.signed THEN "JsonWebTokenError"
    ELSE IF token.expired THEN "TokenExpiredError"
    ELSE NoError

\* res.status(status).json({success: false, ...}) in a middleware
Deny(r, route, token, status) ==
    sessions' = [sessions EXCEPT ![r] =
                    [NoSession EXCEPT !.route = route, !.jwt = token,
                                      !.stage = "done", !.status = status]]

\* requireAuth, from the arrival of the request to next() or the 401
RequireAuth(r) ==
    /\ sessions[r].stage = "idle"
    /\ UNCHANGED <<engineVars, stmtVars, queryVars, schemaVars, users, resetTokens, acct>>
    /\ \E route \in Routes, token \in Credentials :
         IF ~token.present THEN Deny(r, route, token, 401)
         ELSE IF Verify(token) # NoError THEN Deny(r, route, token, 401)
         ELSE sessions' = [sessions EXCEPT ![r] =
                              [NoSession EXCEPT
                                  !.route = route, !.jwt = token, !.user = token.rol,
                                  !.stage = IF route \in AdminRoutes THEN "requireAdmin"
                                            ELSE "handler"]]

\* a chain without the admin check
RequireAdminSkipped(r) ==
    /\ sessions[r].stage = "requireAdmin"
    /\ UNCHANGED <<engineVars, stmtVars, queryVars, schemaVars, users, resetTokens, acct>>
    /\ sessions' = [sessions EXCEPT ![r].stage = "handler"]

\* requireAdmin: 403 unless req.user.rol is 'admin'
RequireAdmin(r) ==
    /\ sessions[r].stage = "requireAdmin"
    /\ UNCHANGED <<engineVars, stmtVars, queryVars, schemaVars, users, resetTokens, acct>>
    /\ IF sessions[r].user # "admin"
       THEN sessions' = [sessions EXCEPT ![r].stage = "done", ![r].status = 403]
       ELSE sessions' = [sessions EXCEPT ![r].stage = "handler"]

\* the filters of the audit query on table_name and action; JsUndefined: not given
AuditFilters ==
    { [table_name |-> JsUndefined, action |-> JsUndefined],
      [table_name |-> "datos", action |-> JsUndefined],
      [table_name |-> JsUndefined, action |-> "delete"] }

\* SELECT ... FROM audit_log WHERE table_name = $1 AND action = $2
AuditQuery(rows, filter) ==
    {e \in rows :
        /\ filter.table_name # JsUndefined => e.table_name = filter.table_name
        /\ filter.action # JsUndefined => e.action = ToUpperCase(filter.action)}

\* GET /api/admin/audit-logs, after the middlewares
AuditLogs(r) ==
    /\ sessions[r].stage = "handler"
    /\ sessions[r].route = "audit-logs"
    /\ UNCHANGED <<engineVars, stmtVars, queryVars, schemaVars, users, resetTokens, acct>>
    /\ \E filter \in AuditFilters :
         sessions' = [sessions EXCEPT ![r].stage = "done", ![r].status = 200,
                                      ![r].data = AuditQuery(db["audit_log"], filter)]

\* the request has passed the middlewares of the route
Passed(r, route) == sessions[r].stage = "handler" /\ sessions[r].route = route

\* the handlers of /api/tables/*, each behind requireAuth
TableHandler(r) ==
    \/ Passed(r, "create") /\ CreateInsert(r)
    \/ Passed(r, "update") /\ (UpdateSelect(r) \/ UpdateApply(r))
    \/ Passed(r, "delete") /\ (DeleteSelect(r) \/ DeleteApply(r))
    \/ sessions[r].stage = "handler" /\ (LogAuditAction(r) \/ Respond(r))
    \/ Passed(r, "read") /\ Read
    \/ Passed(r, "search") /\ Search

GateInit ==
    /\ \E rows \in InitTables : db = [t \in PublicTables |-> IF t = "datos" THEN rows ELSE {}]
    /\ auditSeq = 0
    /\ pc = [r \in Reqs |-> "new"]
    /\ req = [r \in Reqs |-> NoRequest]
    /\ oldRecord = [r \in Reqs |-> {}]
    /\ result = [r \in Reqs |-> {}]
    /\ columns = [r \in Reqs |-> {}]
    /\ touched = [r \in Reqs |-> {}]
    /\ written = [r \in Reqs |-> <<>>]
    /\ auditResult = [r \in Reqs |-> "none"]
    /\ res = [r \in Reqs |-> NoResponse]
    /\ thrown = [r \in Reqs |-> NoError]
    /\ stmt = NoStmt
    /\ sql = <<>>
    /\ params = <<>>
    /\ catalog = [tableName |-> "t", listed |-> TRUE,
                  columns |-> <<Column("k", IntegerType), Column("n", TextType)>>,
                  primary |-> {"k"}]
    /\ heap = {("k" :> "1" @@ "n" :> "ab")}
    /\ reply = NoReply
    /\ SchemaIdle
    /\ AuthIdle

GateNext ==
    \/ \E r \in Reqs : RequireAuth(r)
    \/ \E r \in Reqs : RequireAdmin(r)
    \/ \E r \in Reqs : AuditLogs(r)
    \/ \E r \in Reqs : TableHandler(r)
    \/ ReplyDone

GateSpec == GateInit /\ [][GateNext]_vars

\* the token is signed with the secret and has not expired
ValidToken(token) == token.present /\ token.signed /\ ~token.expired

\* C24: the audit query changes nothing in the store; a request answered by it
\* gets audit entries only if its token is valid and carries the admin rol, and
\* a request without a valid token or with another rol gets an error (401, 403)
\* and no entries.
C24_AuditQueryAdminOnly ==
    [][\A r \in Reqs :
          (sessions'[r] # sessions[r] /\ sessions'[r].route = "audit-logs")
          => /\ db' = db
             /\ auditSeq' = auditSeq
             /\ sessions'[r].stage = "done" =>
                   LET token == sessions'[r].jwt
                       admin == ValidToken(token) /\ token.rol = "admin"
                   IN  /\ admin => /\ sessions'[r].status = 200
                                   /\ sessions'[r].data \subseteq db["audit_log"]
                       /\ ~admin => /\ sessions'[r].status =
                                          IF ValidToken(token) THEN 403 ELSE 401
                                    /\ sessions'[r].data = {}]_vars

\* an admin has been handed the entry another request appended
C24_Witness ==
    \E g, h \in Reqs :
        /\ sessions[g].route = "audit-logs" /\ sessions[g].status = 200
        /\ sessions[g].jwt.rol = "admin"
        /\ written[h] # <<>>
        /\ written[h][1] \in sessions[g].data

----------------------------------------------------------------------------
\* C25: a request on /api/tables/* without a valid, unexpired token is answered
\* 401 by requireAuth and its handler never starts: no catalog lookup, no
\* statement and no audit write is made for it; every handler that has started,
\* and every Read or Search answer, belongs to a request with a valid token.
C25_AuthRequired ==
    /\ \A r \in Reqs :
          /\ (/\ sessions[r].stage # "idle"
              /\ sessions[r].route \in TableRoutes
              /\ ~ValidToken(sessions[r].jwt))
             => /\ sessions[r].stage = "done" /\ sessions[r].status = 401
                /\ pc[r] = "new" /\ req[r] = NoRequest /\ res[r] = NoResponse
                /\ touched[r] = {} /\ written[r] = <<>>
          /\ pc[r] # "new"
             => /\ ValidToken(sessions[r].jwt)
                /\ sessions[r].route = req[r].op
    /\ reply.kind \in {"read", "search"}
       => \E r \in Reqs : ValidToken(sessions[r].jwt) /\ Passed(r, reply.kind)

\* a request with an expired token has been refused while a request with a
\* current token has changed the table
C25_Witness ==
    \E g, h \in Reqs :
        /\ sessions[g].route \in {"create", "update", "delete"}
        /\ sessions[g].jwt.expired /\ sessions[g].status = 401
        /\ ValidToken(sessions[h].jwt) /\ res[h].success
        /\ written[h] # <<>>

----------------------------------------------------------------------------
(* Accounts: login, toggle-status, password-reset request and confirm, over *)
(* the users and password_reset_tokens tables                               *)

\* bcrypt.hash(password, 12)
Hash(password) == <<"bcrypt", password>>

\* bcrypt.compare(password, user.password_hash)
Compare(password, hash) == hash = Hash(password)

\* fecha_vencimiento against CURRENT_TIMESTAMP: later, not later, or NULL
Expiries == {"future", "past", JsNull}

\* the registered user as the last login left it: active exactly when
\* fecha_vencimiento lies ahead
InitUsers ==
    { { [id |-> "1", email |-> "ana", password_hash |-> Hash("secreta1"),
         activo |-> exp = "future", fecha_vencimiento |-> exp] } : exp \in Expiries }

\* the reset token issued to the user before, if any
InitTokens ==
    { {},
      { [id |-> "1", user_id |-> "1", token |-> "tok", expired |-> FALSE, usado |-> FALSE] } }

\* the emails, passwords and tokens the requests carry
Emails == {"ana", "eva", JsEmpty}

Passwords == {"secreta1", "secreta2"}

ResetTokenValues == {"tok", "otro"}

UserIds == {"1", "9"}

\* res.status(status).json({success, message})
Answer(r, status, message) ==
    acct' = [acct EXCEPT ![r].pc = "done", ![r].status = status, ![r].message = message]

\* login, up to bcrypt.compare
loginLookup(r) ==
    /\ acct[r].pc = "idle"
    /\ UNCHANGED <<engineVars, stmtVars, queryVars, schemaVars, users, sessions, resetTokens>>
    /\ \E email \in Emails, password \in Passwords :
         LET userRes == {u \in users : u.email = email}
             begun == [NoAccount EXCEPT !.op = "login", !.email = email,
                                        !.password = password]
         IN  IF email = JsEmpty
             THEN acct' = [acct EXCEPT ![r] =
                      [begun EXCEPT !.pc = "done", !.status = 400,
                                    !.message = "Email y contraseña requeridos."]]
             ELSE IF userRes = {} \/ \A u \in userRes : ~Compare(password, u.password_hash)
             THEN acct' = [acct EXCEPT ![r] =
                      [begun EXCEPT !.pc = "done", !.status = 401,
                                    !.message = "Usuario o contraseña incorrectos."]]
             ELSE acct' = [acct EXCEPT ![r] = [begun EXCEPT !.pc = "check", !.record = userRes]]

\* UPDATE users SET activo = CASE WHEN fecha_vencimiento > CURRENT_TIMESTAMP
\* THEN true ELSE false END WHERE id = $1 RETURNING activo
checkAndUpdateActiveStatus(rows, userId) ==
    {IF u.id = userId THEN [u EXCEPT !.activo = (u.fecha_vencimiento = "future")] ELSE u :
        u \in rows}

\* login, from checkAndUpdateActiveStatus to the response
loginCheck(r) ==
    /\ acct[r].pc = "check"
    /\ acct[r].op = "login"
    /\ UNCHANGED <<engineVars, stmtVars, queryVars, schemaVars, sessions, resetTokens>>
    /\ \E user \in acct[r].record :
         LET updated == checkAndUpdateActiveStatus(users, user.id)
             isActive == \E u \in updated : u.id = user.id /\ u.activo
         IN  /\ users' = updated
             /\ IF ~isActive
                THEN Answer(r, 401, "Usuario inactivo. Contacte al administrador.")
                ELSE acct' = [acct EXCEPT ![r].pc = "done", ![r].status = 200,
                                          ![r].jwt = TRUE]

\* PUT /api/admin/users/:userId/toggle-status, after requireAuth and requireAdmin
toggleStatus(r) ==
    /\ acct[r].pc = "idle"
    /\ UNCHANGED <<engineVars, stmtVars, queryVars, schemaVars, sessions, resetTokens>>
    /\ \E userId \in UserIds :
         LET hit == {u \in users : u.id = userId}
             begun == [NoAccount EXCEPT !.op = "toggle", !.pc = "done", !.token = userId]
         IN  /\ users' = {IF u \in hit THEN [u EXCEPT !.activo = ~u.activo] ELSE u : u \in users}
             /\ IF hit = {}
                THEN acct' = [acct EXCEPT ![r] =
                         [begun EXCEPT !.status = 404, !.message = "Usuario no encontrado"]]
                ELSE acct' = [acct EXCEPT ![r] = [begun EXCEPT !.status = 200]]

\* time passes: the user's fecha_vencimiento is reached
UserExpires ==
    /\ \E u \in users : u.fecha_vencimiento = "future"
    /\ UNCHANGED <<engineVars, stmtVars, queryVars, schemaVars, sessions, resetTokens, acct>>
    /\ users' = {[u EXCEPT !.fecha_vencimiento = "past"] : u \in users}

\* time passes: the token's expires_at is reached
TokenExpires ==
    /\ \E t \in resetTokens : ~t.expired
    /\ UNCHANGED <<engineVars, stmtVars, queryVars, schemaVars, sessions, users, acct>>
    /\ resetTokens' = {[t EXCEPT !.expired = TRUE] : t \in resetTokens}

\* POST /api/password-reset/request, up to the two early answers
resetRequestLookup(r) ==
    /\ acct[r].pc = "idle"
    /\ UNCHANGED <<engineVars, stmtVars, queryVars, schemaVars, users, sessions, resetTokens>>
    /\ \E email \in Emails :
         LET userResult == {u \in users : u.email = email}
             begun == [NoAccount EXCEPT !.op = "reset", !.email = email]
             answered(status, message) ==
                 [begun EXCEPT !.pc = "done", !.status = status, !.message = message]
         IN  IF email = JsEmpty
             THEN acct' = [acct EXCEPT ![r] = answered(400, "Email es requerido")]
             ELSE IF userResult = {} \/ \A u \in userResult : ~u.activo
             THEN acct' = [acct EXCEPT ![r] = answered(200,
                      "Si el email existe, recibirás instrucciones de recuperación")]
             ELSE acct' = [acct EXCEPT ![r] = [begun EXCEPT !.pc = "issue",
                                                            !.record = userResult]]

\* INSERT INTO password_reset_tokens ... ON CONFLICT (user_id) DO UPDATE SET
\* token, expires_at, created_at
UpsertToken(rows, userId, resetToken) ==
    IF \E t \in rows : t.user_id = userId
    THEN {IF t.user_id = userId THEN [t EXCEPT !.token = resetToken, !.expired = FALSE]
          ELSE t : t \in rows}
    ELSE rows \cup {[id |-> "2", user_id |-> userId, token |-> resetToken,
                     expired |-> FALSE, usado |-> FALSE]}

\* POST /api/password-reset/request, from the INSERT on: the reset link is built
\* from baseUrl, a name the module never declares, so the template literal
\* throws a ReferenceError and the catch answers 500
resetRequestIssue(r) ==
    /\ acct[r].pc = "issue"
    /\ acct[r].op = "reset"
    /\ UNCHANGED <<engineVars, stmtVars, queryVars, schemaVars, users, sessions>>
    /\ \E user \in acct[r].record :
         resetTokens' = UpsertToken(resetTokens, user.id, "nuevo")
    /\ Answer(r, 500, "Error interno del servidor")

\* passwordResetConfirm, up to the expiry check
confirmLookup(r) ==
    /\ acct[r].pc = "idle"
    /\ UNCHANGED <<engineVars, stmtVars, queryVars, schemaVars, users, sessions, resetTokens>>
    /\ \E token \in ResetTokenValues, password \in Passwords :
         LET tokenRes == {t \in resetTokens : t.token = token /\ ~t.usado}
             begun == [NoAccount EXCEPT !.op = "confirm", !.token = token,
                                        !.password = password]
             answered(status, message) ==
                 [begun EXCEPT !.pc = "done", !.status = status, !.message = message]
         IN  IF tokenRes = {}
             THEN acct' = [acct EXCEPT ![r] = answered(400, "Token inválido o ya utilizado.")]
             ELSE IF \A t \in tokenRes : t.expired
             THEN acct' = [acct EXCEPT ![r] = answered(400, "Token expirado.")]
             ELSE acct' = [acct EXCEPT ![r] = [begun EXCEPT !.pc = "setPassword",
                                                            !.record = tokenRes]]

\* UPDATE users SET password_hash = $1 WHERE id = $2
confirmSetPassword(r) ==
    /\ acct[r].pc = "setPassword"
    /\ UNCHANGED <<engineVars, stmtVars, queryVars, schemaVars, sessions, resetTokens>>
    /\ \E tokenRecord \in acct[r].record :
         users' = {IF u.id = tokenRecord.user_id
                   THEN [u EXCEPT !.password_hash = Hash(acct[r].password)] ELSE u : u \in users}
    /\ acct' = [acct EXCEPT ![r].pc = "markUsed"]

\* UPDATE password_reset_tokens SET usado = true WHERE id = $1, and the response
confirmMarkUsed(r) ==
    /\ acct[r].pc = "markUsed"
    /\ UNCHANGED <<engineVars, stmtVars, queryVars, schemaVars, sessions, users>>
    /\ \E tokenRecord \in acct[r].record :
         resetTokens' = {IF t.id = tokenRecord.id THEN [t EXCEPT !.usado = TRUE] ELSE t :
                            t \in resetTokens}
    /\ Answer(r, 200, "Contraseña actualizada correctamente.")

AccountInit ==
    /\ db = [t \in PublicTables |-> {}]
    /\ auditSeq = 0
    /\ pc = [r \in Reqs |-> "new"]
    /\ req = [r \in Reqs |-> NoRequest]
    /\ oldRecord = [r \in Reqs |-> {}]
    /\ result = [r \in Reqs |-> {}]
    /\ columns = [r \in Reqs |-> {}]
    /\ touched = [r \in Reqs |-> {}]
    /\ written = [r \in Reqs |-> <<>>]
    /\ auditResult = [r \in Reqs |-> "none"]
    /\ res = [r \in Reqs |-> NoResponse]
    /\ thrown = [r \in Reqs |-> NoError]
    /\ stmt = NoStmt
    /\ sql = <<>>
    /\ params = <<>>
    /\ catalog = NoCatalog
    /\ heap = {}
    /\ reply = NoReply
    /\ SchemaIdle
    /\ users \in InitUsers
    /\ sessions = [r \in Reqs |-> NoSession]
    /\ resetTokens \in InitTokens
    /\ acct = [r \in Reqs |-> NoAccount]

AccountNext ==
    \/ \E r \in Reqs : loginLookup(r)
    \/ \E r \in Reqs : loginCheck(r)
    \/ \E r \in Reqs : toggleStatus(r)
    \/ \E r \in Reqs : resetRequestLookup(r)
    \/ \E r \in Reqs : resetRequestIssue(r)
    \/ \E r \in Reqs : confirmLookup(r)
    \/ \E r \in Reqs : confirmSetPassword(r)
    \/ \E r \in Reqs : confirmMarkUsed(r)
    \/ UserExpires
    \/ TokenExpires

AccountSpec == AccountInit /\ [][AccountNext]_vars

\* C28: a reset token changes the password once at most: a confirm changes
\* the stored password only if its token is not marked used and no other confirm
\* with that token has changed the password before, whether that confirm has
\* answered yet or not.
C28_TokenUsedOnce ==
    [][\A g \in Reqs :
          (acct[g].pc = "setPassword" /\ acct'[g].pc = "markUsed")
          => /\ \A t \in resetTokens : t.token = acct[g].token => ~t.usado
             /\ \A h \in Reqs \ {g} :
                   (acct[h].op = "confirm" /\ acct[h].token = acct[g].token)
                   => ~(acct[h].pc = "markUsed" \/ acct[h].status = 200)]_vars

\* C29: Login never turns an inactive user active, and a user who is inactive
\* when Login checks the status gets no token, whatever the expiry date.
C29_LoginKeepsInactive ==
    [][\A r \in Reqs :
          (acct[r].op = "login" /\ acct[r].pc = "check" /\ acct'[r].pc = "done")
          => \A u \in users :
                (u.id \in {x.id : x \in acct[r].record} /\ ~u.activo)
                => /\ \A v \in users' : v.id = u.id => ~v.activo
                   /\ ~acct'[r].jwt
                   /\ acct'[r].status = 401]_vars

\* C30: two password-reset requests that have been answered, one for an email
\* that is registered and one for an email that is not, got the same status and
\* the same message.
C30_ResetHidesExistence ==
    \A g, h \in Reqs :
        (/\ acct[g].op = "reset" /\ acct[h].op = "reset"
         /\ acct[g].pc = "done" /\ acct[h].pc = "done"
         /\ acct[g].email # JsEmpty /\ acct[h].email # JsEmpty)
        => /\ acct[g].status = acct[h].status
           /\ acct[g].message = acct[h].message

====
